---- MODULE Spec2Model ----
(***************************************************************************)
(* Apple Mail MCP: the script-escaping and validation functions of         *)
(* apple_mail_mcp/utils.py, the security gate of apple_mail_mcp/security.py *)
(* (rate limiter, confirmation dialog, validators, audit trail) and the    *)
(* bridge call pipeline.                                                   *)
(*                                                                         *)
(* Strings are sequences of characters.  A character is a one-letter       *)
(* string, except the characters that have no printable form, which are    *)
(* named: NUL (0x00), SOH (0x01), TAB (0x09), LF (0x0A), CR (0x0D),        *)
(* BSL (backslash, 0x5C) and DQ (double quote, 0x22).                      *)
(***************************************************************************)
EXTENDS Integers, Sequences, FiniteSets, TLC

VARIABLES
    fn,     \* the utils.py function that was called ("none" before the call)
    arg,    \* its argument, a string
    ret,    \* its return value
    now,              \* datetime.now(), in seconds
    operation_times,  \* RateLimiter.operation_times: operation -> list of timestamps
    cfgW,             \* window_seconds of the calls of this run
    cfgM,             \* max_operations of the calls of this run
    admitted,         \* history: operation -> the timestamps of its admitted checks
                      \*   since its last reset
    lastCall,         \* history: the last completed check: its arguments, its time,
                      \*   its return value, and how many timestamps in its window
                      \*   were admitted (before) and recorded when it was made
    tpc,      \* per caller thread: its position in RateLimiter.check
    tnow,     \* per caller thread: the local variable now
    tlocal,   \* per caller thread: the pruned list it built and has not stored yet
    tret,     \* per caller thread: the return value of its last check
    tseen,    \* history: per thread, the admissions in its window when it compared
    cpc,           \* require_confirmation: "idle", "dialog" (in subprocess.run), "done"
    auto_confirm,  \* its auto_confirm argument: "True", "False" or "None"
    dialogRuns,    \* the number of subprocess.run calls it made
    dialog,        \* how subprocess.run ended: a result or an exception
    cret,          \* what the call returned ("raised": an exception left it)
    bpc,           \* bridge call: "idle", "gate", "execute", "running", "classify",
                   \*   "parse", "done"
    request,       \* the operation and parameters of the bridge call
    gate,          \* what the rate limiter, the bulk check and the confirmation said
    execCount,     \* interpreter subprocesses started by this call
    proc,          \* how the interpreter process ended
    classified,    \* the Error Classifier has seen the process outcome
    parsedStdout,  \* stdout was handed to the Result Parser
    bresult,       \* the typed result of the call
    operations,    \* OperationLogger.operations of operation_logger: the audit trail
    recent,        \* what the last get_recent_operations call returned
    xpc,       \* extract_attachment_text: "idle", "saving", "extracting", "done"
    xcall,     \* its arguments and the temporary directory it made
    tmp_dirs,  \* the temporary directories that exist
    xresult    \* what the call returned, or what it raised

pureVars == <<fn, arg, ret>>
rateVars == <<now, operation_times, cfgW, cfgM, admitted, lastCall>>
threadVars == <<tpc, tnow, tlocal, tret, tseen>>
confVars == <<cpc, auto_confirm, dialogRuns, dialog, cret>>
bridgeVars == <<bpc, request, gate, execCount, proc, classified, parsedStdout, bresult>>
logVars == <<operations, recent>>
extractVars == <<xpc, xcall, tmp_dirs, xresult>>
vars == <<pureVars, rateVars, threadVars, confVars, bridgeVars, logVars, extractVars>>

\* The operation names of the model and the caller threads.
Ops == {"send_email", "delete_messages", "mark_as_read", "save_attachments"}
Threads == {"t1", "t2"}
NoCall == [op |-> "none"]

\* The parts of the state a run does not use stay as constructed.
PureIdle == fn = "none" /\ arg = <<>> /\ ret = <<>>
RateIdle ==
    /\ now = 0
    /\ operation_times = [o \in Ops |-> <<>>]
    /\ cfgW = 1 /\ cfgM = 1
    /\ admitted = [o \in Ops |-> <<>>]
    /\ lastCall = NoCall
ThreadsIdle ==
    /\ tpc = [t \in Threads |-> "idle"]
    /\ tnow = [t \in Threads |-> 0]
    /\ tlocal = [t \in Threads |-> <<>>]
    /\ tret = [t \in Threads |-> "none"]
    /\ tseen = [t \in Threads |-> 0]

NoDialog == [kind |-> "none"]
ConfIdle ==
    /\ cpc = "idle"
    /\ auto_confirm = "None"
    /\ dialogRuns = 0
    /\ dialog = NoDialog
    /\ cret = "none"

NoRequest == [op |-> "none"]
NoGate == [rate |-> FALSE, bulk |-> FALSE, confirm |-> "none"]
NoProcess == [kind |-> "none"]
Pending == [kind |-> "pending"]
BridgeIdle ==
    /\ bpc = "idle"
    /\ request = NoRequest
    /\ gate = NoGate
    /\ execCount = 0
    /\ proc = NoProcess
    /\ classified = FALSE
    /\ parsedStdout = FALSE
    /\ bresult = Pending

LogIdle == operations = <<>> /\ recent = <<>>
NoExtraction == [attachment_index |-> 0, attachment_name |-> <<>>, save_directory |-> 0]
ExtractIdle ==
    /\ xpc = "idle"
    /\ xcall = NoExtraction
    /\ tmp_dirs = {}
    /\ xresult = Pending

outsidePure == <<rateVars, threadVars, confVars, bridgeVars, logVars, extractVars>>
OutsidePureIdle == RateIdle /\ ThreadsIdle /\ ConfIdle /\ BridgeIdle /\ LogIdle /\ ExtractIdle
outsideRate == <<pureVars, threadVars, confVars, bridgeVars, logVars, extractVars>>
OutsideRateIdle == PureIdle /\ ThreadsIdle /\ ConfIdle /\ BridgeIdle /\ LogIdle /\ ExtractIdle
outsideThreads == <<pureVars, confVars, bridgeVars, logVars, extractVars>>
OutsideThreadsIdle == PureIdle /\ ConfIdle /\ BridgeIdle /\ LogIdle /\ ExtractIdle
outsideConf == <<pureVars, rateVars, threadVars, bridgeVars, logVars, extractVars>>
OutsideConfIdle == PureIdle /\ RateIdle /\ ThreadsIdle /\ BridgeIdle /\ LogIdle /\ ExtractIdle
outsideBridge == <<pureVars, threadVars, confVars, logVars, extractVars>>
OutsideBridgeIdle == PureIdle /\ ThreadsIdle /\ ConfIdle /\ LogIdle /\ ExtractIdle
outsideLog == <<pureVars, rateVars, threadVars, confVars, bridgeVars, extractVars>>
outsideExtract == <<pureVars, rateVars, threadVars, confVars, bridgeVars, logVars>>

(***************************************************************************)
(* Characters                                                              *)
(***************************************************************************)
NUL == "NUL"
SOH == "SOH"
TAB == "TAB"
LF == "LF"
CR == "CR"
BSL == "BSL"
DQ == "DQ"
SP == " "

\* The characters of the model's alphabets whose code point is below 0x20.
Control == {NUL, SOH, TAB, LF, CR}

RECURSIVE Flatten(_)
Flatten(ss) == IF ss = <<>> THEN <<>> ELSE Head(ss) \o Flatten(Tail(ss))

\* str.replace(old, new) for a one-character old.
ReplaceChar(s, old, new) ==
    Flatten([i \in 1..Len(s) |-> IF s[i] = old THEN new ELSE <<s[i]>>])

\* All strings over alphabet of length at most n.
StringsUpTo(alphabet, n) == UNION {[1..k -> alphabet] : k \in 0..n}

(***************************************************************************)
(* escape_applescript_string                                               *)
(***************************************************************************)
\* The seven steps with the quote escaped before the backslash: the
\* backslash of an escaped quote is then escaped again.
escape_quote_first(s) ==
    LET s1 == SelectSeq(s, LAMBDA c : c # NUL)
        s2 == SelectSeq(s1, LAMBDA c : c \notin Control \/ c \in {TAB, LF, CR})
        s3 == ReplaceChar(s2, DQ, <<BSL, DQ>>)
        s4 == ReplaceChar(s3, BSL, <<BSL, BSL>>)
        s5 == ReplaceChar(s4, CR, <<BSL, "r">>)
        s6 == ReplaceChar(s5, LF, <<BSL, "n">>)
    IN  ReplaceChar(s6, TAB, <<BSL, "t">>)

escape_applescript_string(s) ==
    LET s1 == SelectSeq(s, LAMBDA c : c # NUL)
        s2 == SelectSeq(s1, LAMBDA c : c \notin Control \/ c \in {TAB, LF, CR})
        s3 == ReplaceChar(s2, BSL, <<BSL, BSL>>)
        s4 == ReplaceChar(s3, DQ, <<BSL, DQ>>)
        s5 == ReplaceChar(s4, CR, <<BSL, "r">>)
        s6 == ReplaceChar(s5, LF, <<BSL, "n">>)
    IN  ReplaceChar(s6, TAB, <<BSL, "t">>)

MaxEscLen == 4
EscAlphabet == {NUL, SOH, TAB, LF, CR, BSL, DQ, "a", "n"}

InitEscape ==
    /\ fn = "none"
    /\ arg \in StringsUpTo(EscAlphabet, MaxEscLen)
    /\ ret = <<>>
    /\ OutsidePureIdle

CallEscape ==
    /\ fn = "none"
    /\ fn' = "escape_applescript_string"
    /\ ret' = escape_applescript_string(arg)
    /\ UNCHANGED <<arg, outsidePure>>

NextEscape == CallEscape

SpecEscape == InitEscape /\ [][NextEscape]_vars

\* The body of one script string literal: read left to right, every
\* backslash opens a two-character escape (\\ \" \n \r \t) and outside the
\* escapes there is no double quote and no character below 0x20.
RECURSIVE LiteralBodyFrom(_, _)
LiteralBodyFrom(s, i) ==
    IF i > Len(s) THEN TRUE
    ELSE IF s[i] = BSL
         THEN /\ i + 1 <= Len(s)
              /\ s[i + 1] \in {BSL, DQ, "n", "r", "t"}
              /\ LiteralBodyFrom(s, i + 2)
         ELSE /\ s[i] # DQ
              /\ s[i] \notin Control
              /\ LiteralBodyFrom(s, i + 1)

IsLiteralBody(s) == LiteralBodyFrom(s, 1)

\* C1: the escaped string has no unescaped double quote, no backslash outside
\* an escape pair and no NUL or other control character below 0x20, so that
\* between two double quotes it is exactly one string literal.
C1_EscapedIsOneLiteral ==
    fn = "escape_applescript_string" => IsLiteralBody(ret)

\* An argument with a quote, a backslash and a control character was escaped.
C1_Witness ==
    /\ fn = "escape_applescript_string"
    /\ \E i, j, k \in 1..Len(arg) : arg[i] = DQ /\ arg[j] = BSL /\ arg[k] \in Control
    /\ Len(ret) > Len(arg)

(***************************************************************************)
(* parse_date_filter                                                       *)
(***************************************************************************)
UpperCase == <<"A", "B", "C", "D", "E", "F", "G", "H", "I", "J", "K", "L", "M",
               "N", "O", "P", "Q", "R", "S", "T", "U", "V", "W", "X", "Y", "Z">>
LowerCase == <<"a", "b", "c", "d", "e", "f", "g", "h", "i", "j", "k", "l", "m",
               "n", "o", "p", "q", "r", "s", "t", "u", "v", "w", "x", "y", "z">>
Digits == <<"0", "1", "2", "3", "4", "5", "6", "7", "8", "9">>

Range(f) == {f[i] : i \in DOMAIN f}
IsDigit(c) == c \in Range(Digits)
IsUpper(c) == c \in Range(UpperCase)
IsLower(c) == c \in Range(LowerCase)
\* \s of the re module and str.strip(), on the model's alphabets.
Whitespace == {SP, TAB, LF, CR}

\* str.lower(), character by character.
LowerChar(c) ==
    IF IsUpper(c) THEN LowerCase[CHOOSE i \in 1..26 : UpperCase[i] = c] ELSE c
Lower(s) == [i \in 1..Len(s) |-> LowerChar(s[i])]

\* The number of consecutive characters of s from position i on that are in set.
Run(s, i, set) ==
    CHOOSE n \in 0..(Len(s) + 1 - i) :
        /\ \A k \in i..(i + n - 1) : s[k] \in set
        /\ i + n > Len(s) \/ s[i + n] \notin set

\* s holds word at position i.
HasAt(s, i, word) ==
    /\ i + Len(word) - 1 <= Len(s)
    /\ SubSeq(s, i, i + Len(word) - 1) = word

StartsWith(s, word) == HasAt(s, 1, word)
EndsWith(s, word) == Len(word) <= Len(s) /\ HasAt(s, Len(s) - Len(word) + 1, word)

\* str.strip(), str.lstrip(chars), str.rstrip(chars).
LStrip(s, set) == SubSeq(s, Run(s, 1, set) + 1, Len(s))
Reverse(s) == [i \in 1..Len(s) |-> s[Len(s) + 1 - i]]
RStrip(s, set) == SubSeq(s, 1, Len(s) - Run(Reverse(s), 1, set))
Strip(s) == RStrip(LStrip(s, Whitespace), Whitespace)

\* int(digits) and the decimal text of a natural number (an f-string field).
DigitValue(c) == (CHOOSE i \in 1..10 : Digits[i] = c) - 1
RECURSIVE ToInt(_)
ToInt(ds) ==
    IF ds = <<>> THEN 0
    ELSE 10 * ToInt(SubSeq(ds, 1, Len(ds) - 1)) + DigitValue(ds[Len(ds)])
RECURSIVE IntText(_)
IntText(n) ==
    IF n < 10 THEN <<Digits[n + 1]>>
    ELSE IntText(n \div 10) \o <<Digits[(n % 10) + 1]>>

W_day == <<"d", "a", "y">>
W_week == <<"w", "e", "e", "k">>
W_month == <<"m", "o", "n", "t", "h">>
W_year == <<"y", "e", "a", "r">>
W_ago == <<"a", "g", "o">>
W_last == <<"l", "a", "s", "t", " ">>
Units == {W_day, W_week, W_month, W_year}

\* "(current date) - (", " * " and "date " followed by a double quote
T_current_date_minus ==
    <<"(", "c", "u", "r", "r", "e", "n", "t", " ", "d", "a", "t", "e", ")",
      " ", "-", " ", "(">>
T_times == <<" ", "*", " ">>
T_date_quote == <<"d", "a", "t", "e", " ", DQ>>

\* re.match(r"(\d+)\s+(day|week|month|year)s?\s+ago", s): a match at the
\* start of s, anything may follow it.  The groups of the match, or
\* [found |-> FALSE].  No unit is the prefix of another and a greedy
\* repetition that gives back a character cannot make the rest match, so the
\* match is decided by the greedy runs.
RelativeMatch(s) ==
    LET d == Run(s, 1, Range(Digits))
        w == Run(s, d + 1, Whitespace)
        u == d + w + 1
        unitsHere == {x \in Units : HasAt(s, u, x)}
    IN  IF d >= 1 /\ w >= 1 /\ unitsHere # {}
        THEN LET unit == CHOOSE x \in unitsHere : TRUE
                 p == u + Len(unit)
                 q == IF HasAt(s, p, <<"s">>) THEN p + 1 ELSE p
                 w2 == Run(s, q, Whitespace)
             IN  IF w2 >= 1 /\ HasAt(s, q + w2, W_ago)
                 THEN [found |-> TRUE, amount |-> SubSeq(s, 1, d), unit |-> unit]
                 ELSE [found |-> FALSE]
        ELSE [found |-> FALSE]

\* re.match(r"\d{4}-\d{2}-\d{2}", s)
IsoMatch(s) ==
    /\ Len(s) >= 10
    /\ \A i \in {1, 2, 3, 4, 6, 7, 9, 10} : IsDigit(s[i])
    /\ s[5] = "-" /\ s[8] = "-"

parse_date_filter(date_str) ==
    LET m == RelativeMatch(Lower(date_str))
    IN  IF m.found
        THEN T_current_date_minus \o IntText(ToInt(m.amount)) \o T_times
                 \o m.unit \o <<"s", ")">>
        ELSE IF StartsWith(Lower(date_str), W_last)
        THEN LET unit == RStrip(Strip(SubSeq(date_str, 6, Len(date_str))), {"s"})
                             \o <<"s">>
             IN  T_current_date_minus \o <<"1">> \o T_times \o unit \o <<")">>
        ELSE IF IsoMatch(date_str)
        THEN T_date_quote \o date_str \o <<DQ>>
        ELSE T_date_quote \o date_str \o <<DQ>>

\* The date strings of the model: up to MaxDateFrags fragments in a row.
MaxDateFrags == 3
DateFrags ==
    { <<"7", " ">>, <<"0", "7", " ">>, <<"d", "a", "y", "s", " ">>,
      <<"M", "o", "n", "t", "h", " ">>, W_year, W_ago, W_last,
      <<"L", "a", "s", "t", " ">>, W_week, <<"w", "e", "e", "k", "s">>,
      <<DQ>>, <<"x">>, <<" ">>,
      <<"2", "0", "2", "4", "-", "0", "1", "-", "0", "1">> }
DateInputs == {Flatten(fs) : fs \in StringsUpTo(DateFrags, MaxDateFrags)}

InitDate ==
    /\ fn = "none"
    /\ arg \in DateInputs
    /\ ret = <<>>
    /\ OutsidePureIdle

CallParseDate ==
    /\ fn = "none"
    /\ fn' = "parse_date_filter"
    /\ ret' = parse_date_filter(arg)
    /\ UNCHANGED <<arg, outsidePure>>

NextDate == CallParseDate

SpecDate == InitDate /\ [][NextDate]_vars

\* '(current date) - (N * <unit>s)', N a decimal number, <unit> one of the four.
IsDateArithmetic(r) ==
    \E unit \in Units :
        LET tail == T_times \o unit \o <<"s", ")">>
            n == Len(r) - Len(T_current_date_minus) - Len(tail)
        IN  /\ n >= 1
            /\ StartsWith(r, T_current_date_minus)
            /\ EndsWith(r, tail)
            /\ \A i \in 1..n : IsDigit(r[Len(T_current_date_minus) + i])

\* Read left to right, a backslash takes the next character with it; outside
\* such pairs there is no double quote: the text cannot close the quote it
\* stands in, nor escape the quote that closes it.
RECURSIVE QuoteStaysOpenFrom(_, _)
QuoteStaysOpenFrom(s, i) ==
    IF i > Len(s) THEN TRUE
    ELSE IF s[i] = BSL
         THEN i + 1 <= Len(s) /\ QuoteStaysOpenFrom(s, i + 2)
         ELSE s[i] # DQ /\ QuoteStaysOpenFrom(s, i + 1)

\* 'date "..."', one quoted literal and nothing after it.
IsDateLiteral(r) ==
    /\ Len(r) >= Len(T_date_quote) + 1
    /\ StartsWith(r, T_date_quote)
    /\ r[Len(r)] = DQ
    /\ QuoteStaysOpenFrom(SubSeq(r, Len(T_date_quote) + 1, Len(r) - 1), 1)

\* C2: the script text of a date filter is the arithmetic expression or one
\* well-formed quoted date literal, whatever the caller's date string is.
C2_DateFilterStructureFixed ==
    fn = "parse_date_filter" => IsDateArithmetic(ret) \/ IsDateLiteral(ret)

(***************************************************************************)
(* validate_message_id                                                     *)
(***************************************************************************)
MaxMessageIdLen == 255

Contains(s, word) == \E i \in 1..Len(s) : HasAt(s, i, word)

\* [A-Za-z0-9_-]
IsIdChar(c) == IsUpper(c) \/ IsLower(c) \/ IsDigit(c) \/ c \in {"_", "-"}

\* re.match(r'^[A-Za-z0-9_-]+$', s): $ matches at the end of the string and
\* also just before a line feed that ends the string.
IdPatternMatch(s) ==
    LET body == IF s # <<>> /\ s[Len(s)] = LF THEN SubSeq(s, 1, Len(s) - 1) ELSE s
    IN  /\ body # <<>>
        /\ \A i \in 1..Len(body) : IsIdChar(body[i])

validate_message_id(message_id) ==
    IF message_id = <<>> THEN FALSE
    ELSE IF Len(message_id) > MaxMessageIdLen THEN FALSE
    ELSE IF ~IdPatternMatch(message_id) THEN FALSE
    ELSE IF \/ Contains(message_id, <<".", ".">>)
            \/ Contains(message_id, <<"/">>)
            \/ Contains(message_id, <<BSL>>)
         THEN FALSE
    ELSE TRUE

\* The message ids of the model: up to MaxIdFrags fragments in a row, one of
\* them a run of letters one short of the length limit.
MaxIdFrags == 3
LongId == [i \in 1..(MaxMessageIdLen - 1) |-> "a"]
IdFrags ==
    { LongId, <<"a">>, <<"Z">>, <<"9">>, <<"-">>, <<"_">>, <<" ">>, <<LF>>,
      <<"/">>, <<".">>, <<BSL>>, <<DQ>> }
IdInputs == {Flatten(fs) : fs \in StringsUpTo(IdFrags, MaxIdFrags)}

InitMessageId ==
    /\ fn = "none"
    /\ arg \in IdInputs
    /\ ret = FALSE
    /\ OutsidePureIdle

CallValidateMessageId ==
    /\ fn = "none"
    /\ fn' = "validate_message_id"
    /\ ret' = validate_message_id(arg)
    /\ UNCHANGED <<arg, outsidePure>>

NextMessageId == CallValidateMessageId

SpecMessageId == InitMessageId /\ [][NextMessageId]_vars

\* C9: an accepted message id is non-empty, has at most 255 characters and
\* consists of ASCII letters, digits, dashes and underscores only.
C9_AcceptedIdMatchesGrammar ==
    (fn = "validate_message_id" /\ ret = TRUE) =>
        /\ arg # <<>>
        /\ Len(arg) <= MaxMessageIdLen
        /\ \A i \in 1..Len(arg) : IsIdChar(arg[i])

(***************************************************************************)
(* sanitize_filename                                                       *)
(***************************************************************************)
MaxFilenameLen == 255

RECURSIVE SplitBy(_, _)
\* str.split(c): the pieces of s between the occurrences of c.
SplitBy(s, c) ==
    IF \A i \in 1..Len(s) : s[i] # c THEN <<s>>
    ELSE LET i == CHOOSE k \in 1..Len(s) : s[k] = c /\ \A j \in 1..(k - 1) : s[j] # c
         IN  <<SubSeq(s, 1, i - 1)>> \o SplitBy(SubSeq(s, i + 1, Len(s)), c)

\* pathlib.Path(s).name on a POSIX system: the last of the components
\* between slashes, empty components and "." components dropped; "" if none.
PathName(s) ==
    LET parts == SelectSeq(SplitBy(s, "/"), LAMBDA p : p # <<>> /\ p # <<".">>)
    IN  IF parts = <<>> THEN <<>> ELSE parts[Len(parts)]

\* [a-zA-Z0-9._-]
IsNameChar(c) == IsIdChar(c) \/ c = "."

\* s[:k], k of either sign.
SliceTo(s, k) ==
    IF k >= 0 THEN SubSeq(s, 1, IF k < Len(s) THEN k ELSE Len(s))
    ELSE SubSeq(s, 1, IF Len(s) + k > 0 THEN Len(s) + k ELSE 0)

\* The position of the last occurrence of c in s, 0 if there is none.
LastIndexOf(s, c) ==
    IF \A i \in 1..Len(s) : s[i] # c THEN 0
    ELSE CHOOSE k \in 1..Len(s) : s[k] = c /\ \A j \in (k + 1)..Len(s) : s[j] # c

T_unnamed_file == <<"u", "n", "n", "a", "m", "e", "d", "_", "f", "i", "l", "e">>

\* Lines 337-347: the name before the length limit is applied.
CleanedName(filename) ==
    LET f1 == SelectSeq(filename, LAMBDA c : c # NUL)
        f2 == PathName(f1)
        f3 == [i \in 1..Len(f2) |-> IF IsNameChar(f2[i]) THEN f2[i] ELSE "_"]
    IN  LStrip(f3, {"."})

\* Lines 350-358: the length limit.
LimitLength(f) ==
    IF Len(f) > MaxFilenameLen
    THEN LET dot == LastIndexOf(f, ".")
             name == IF dot > 0 THEN SubSeq(f, 1, dot - 1) ELSE f
             ext == IF dot > 0 THEN SubSeq(f, dot + 1, Len(f)) ELSE <<>>
         IN  IF ext # <<>>
             THEN SliceTo(name, MaxFilenameLen - Len(ext) - 1) \o <<".">> \o ext
             ELSE SliceTo(f, MaxFilenameLen)
    ELSE f

sanitize_filename(filename) ==
    LET f == LimitLength(CleanedName(filename))
    IN  IF f = <<>> THEN T_unnamed_file ELSE f

\* The file names of the model: up to MaxNameFrags fragments in a row, one of
\* them a run of letters one short of the length limit.
MaxNameFrags == 4
LongName == [i \in 1..(MaxFilenameLen - 1) |-> "b"]
NameFrags ==
    { LongName, <<"a">>, <<".">>, <<"/">>, <<":">>, <<NUL>>, <<BSL>> }
NameInputs == {Flatten(fs) : fs \in StringsUpTo(NameFrags, MaxNameFrags)}

InitFilename ==
    /\ fn = "none"
    /\ arg \in NameInputs
    /\ ret = <<>>
    /\ OutsidePureIdle

CallSanitizeFilename ==
    /\ fn = "none"
    /\ fn' = "sanitize_filename"
    /\ ret' = sanitize_filename(arg)
    /\ UNCHANGED <<arg, outsidePure>>

NextFilename == CallSanitizeFilename

SpecFilename == InitFilename /\ [][NextFilename]_vars

\* The text after the last slash of s that is followed by a component.
FinalComponent(s) == PathName(SelectSeq(s, LAMBDA c : c # NUL))

\* C10: the sanitized file name is non-empty, has at most 255 characters, all
\* of them in [A-Za-z0-9._-], does not start with a dot and comes from the
\* final path component alone; a cleaned name of more than 255 characters
\* keeps its extension and still fits in 255 characters.
C10_FilenameSafeAndBounded ==
    fn = "sanitize_filename" =>
        /\ ret # <<>>
        /\ Len(ret) <= MaxFilenameLen
        /\ \A i \in 1..Len(ret) : IsNameChar(ret[i])
        /\ ret[1] # "."
        /\ ret = sanitize_filename(FinalComponent(arg))
        /\ LET cleaned == CleanedName(arg)
               dot == LastIndexOf(cleaned, ".")
           IN  (Len(cleaned) > MaxFilenameLen /\ dot > 0 /\ dot < Len(cleaned)) =>
                   EndsWith(ret, SubSeq(cleaned, dot, Len(cleaned)))

(***************************************************************************)
(* RateLimiter                                                             *)
(***************************************************************************)
\* Line 95 with > for >=: one call more than max_operations gets through.
LimitExceededOffByOne(history, max_operations) == Len(history) > max_operations

\* Lines 90-92 left out: no timestamp is ever dropped.
PruneKeepsAll(history, cutoff) == history

\* Lines 90-92 with >= for >: a timestamp exactly window_seconds old stays.
PruneKeepsBoundary(history, cutoff) == SelectSeq(history, LAMBDA t : t >= cutoff)

\* Lines 90-92: the timestamps that are younger than the cutoff.
Prune(history, cutoff) == SelectSeq(history, LAMBDA t : t > cutoff)

\* Line 95
LimitExceeded(history, max_operations) == Len(history) >= max_operations

\* The admissions of op with a timestamp in the window of a check made at time at.
AdmittedInWindow(op, at, window_seconds) ==
    Cardinality({j \in 1..Len(admitted[op]) : admitted[op][j] > at - window_seconds})

\* The recorded timestamps of op that are younger than window_seconds at time at.
RecordedInWindow(op, at, window_seconds) ==
    Cardinality({j \in 1..Len(operation_times[op]) :
                    operation_times[op][j] > at - window_seconds})

\* RateLimiter.check that records the attempt before it looks at the limit.
CheckRecordsDenied(operation, window_seconds, max_operations) ==
    LET cutoff == now - window_seconds
        pruned == Prune(operation_times[operation], cutoff)
        denied == LimitExceeded(pruned, max_operations)
    IN  /\ operation_times' = [operation_times EXCEPT ![operation] = Append(pruned, now)]
        /\ admitted' =
               [admitted EXCEPT
                    ![operation] = IF denied THEN @ ELSE Append(@, now)]
        /\ lastCall' = [op |-> operation, at |-> now, result |-> ~denied,
                        before |-> AdmittedInWindow(operation, now, window_seconds),
                        window |-> window_seconds, max |-> max_operations,
                        recorded |-> RecordedInWindow(operation, now, window_seconds)]
        /\ UNCHANGED <<now, cfgW, cfgM>>

\* RateLimiter.check with one history for all operation names.
CheckSharedBudget(operation, window_seconds, max_operations) ==
    LET cutoff == now - window_seconds
        pruned == Prune(operation_times[operation], cutoff)
        denied == LimitExceeded(pruned, max_operations)
    IN  /\ operation_times' =
               [o \in Ops |-> IF denied THEN pruned ELSE Append(pruned, now)]
        /\ admitted' =
               [admitted EXCEPT
                    ![operation] = IF denied THEN @ ELSE Append(@, now)]
        /\ lastCall' = [op |-> operation, at |-> now, result |-> ~denied,
                        before |-> AdmittedInWindow(operation, now, window_seconds),
                        window |-> window_seconds, max |-> max_operations,
                        recorded |-> RecordedInWindow(operation, now, window_seconds)]
        /\ UNCHANGED <<now, cfgW, cfgM>>

\* RateLimiter.check(operation, window_seconds, max_operations), one call
\* from its first line to its return.
Check(operation, window_seconds, max_operations) ==
    LET cutoff == now - window_seconds
        pruned == Prune(operation_times[operation], cutoff)
        denied == LimitExceeded(pruned, max_operations)
    IN  /\ operation_times' =
               [operation_times EXCEPT
                    ![operation] = IF denied THEN pruned ELSE Append(pruned, now)]
        /\ admitted' =
               [admitted EXCEPT
                    ![operation] = IF denied THEN @ ELSE Append(@, now)]
        /\ lastCall' = [op |-> operation, at |-> now, result |-> ~denied,
                        before |-> AdmittedInWindow(operation, now, window_seconds),
                        window |-> window_seconds, max |-> max_operations,
                        recorded |-> RecordedInWindow(operation, now, window_seconds)]
        /\ UNCHANGED <<now, cfgW, cfgM>>

\* The clock: datetime.now() never goes back.
MaxTime == 4
Tick ==
    /\ now < MaxTime
    /\ now' = now + 1
    /\ UNCHANGED <<operation_times, cfgW, cfgM, admitted, lastCall>>

MaxWindow == 3
MaxBudget == 3

InitRate ==
    /\ now = 0
    /\ operation_times = [o \in Ops |-> <<>>]
    /\ cfgW \in 1..MaxWindow
    /\ cfgM \in 1..MaxBudget
    /\ admitted = [o \in Ops |-> <<>>]
    /\ lastCall = NoCall
    /\ OutsideRateIdle

\* The calls of one run are on one operation name, with the run's W and M.
CallCheck == Check("send_email", cfgW, cfgM) /\ UNCHANGED outsideRate
ClockTick == Tick /\ UNCHANGED outsideRate

NextRate == CallCheck \/ ClockTick

SpecRate == InitRate /\ [][NextRate]_vars

\* The admissions of op inside the time span of length just under W that
\* starts at its i-th admission.
AdmittedInSpanFrom(op, i, window_seconds) ==
    Cardinality({j \in 1..Len(admitted[op]) :
                    /\ admitted[op][j] >= admitted[op][i]
                    /\ admitted[op][j] < admitted[op][i] + window_seconds})

\* C3: with fixed W and M and a clock that never goes back, no time span
\* shorter than W holds more than M admitted checks of one operation, and a
\* check that follows M admissions inside its window returns False.
C3_AtMostMaxPerWindow ==
    /\ \A op \in Ops : \A i \in 1..Len(admitted[op]) :
           AdmittedInSpanFrom(op, i, cfgW) <= cfgM
    /\ (lastCall # NoCall /\ lastCall.before >= cfgM) => lastCall.result = FALSE

\* A check was denied right after M admissions inside the same window.
C3_Witness ==
    /\ lastCall # NoCall
    /\ lastCall.result = FALSE
    /\ lastCall.before = cfgM
    /\ Len(admitted[lastCall.op]) >= cfgM

(***************************************************************************)
(* RateLimiter.check called by several threads on the shared rate_limiter  *)
(* (security.py:120).  The method takes no lock, so its statements         *)
(* interleave: each thread reads the clock, builds the pruned list, stores *)
(* it, compares its length and appends, with the other threads' steps in   *)
(* between.                                                                *)
(***************************************************************************)
SharedOp == "send_email"

\* Lines 86-87: now = datetime.now()
TReadClock(t) ==
    /\ tpc[t] = "idle"
    /\ tnow' = [tnow EXCEPT ![t] = now]
    /\ tpc' = [tpc EXCEPT ![t] = "prune"]
    /\ UNCHANGED <<rateVars, tlocal, tret, tseen>>

\* Lines 90-92, right-hand side: a new list of the young timestamps.
TBuildPruned(t) ==
    /\ tpc[t] = "prune"
    /\ tlocal' = [tlocal EXCEPT ![t] = Prune(operation_times[SharedOp], tnow[t] - cfgW)]
    /\ tpc' = [tpc EXCEPT ![t] = "store"]
    /\ UNCHANGED <<rateVars, tnow, tret, tseen>>

\* Line 90, the assignment: the new list replaces the shared one.
TStorePruned(t) ==
    /\ tpc[t] = "store"
    /\ operation_times' = [operation_times EXCEPT ![SharedOp] = tlocal[t]]
    /\ tlocal' = [tlocal EXCEPT ![t] = <<>>]
    /\ tpc' = [tpc EXCEPT ![t] = "compare"]
    /\ UNCHANGED <<now, cfgW, cfgM, admitted, lastCall, tnow, tret, tseen>>

\* Lines 95-100: the comparison, and the return of False.
TCompare(t) ==
    /\ tpc[t] = "compare"
    /\ tseen' = [tseen EXCEPT ![t] = AdmittedInWindow(SharedOp, tnow[t], cfgW)]
    /\ IF LimitExceeded(operation_times[SharedOp], cfgM)
       THEN /\ tret' = [tret EXCEPT ![t] = "False"]
            /\ tpc' = [tpc EXCEPT ![t] = "returned"]
       ELSE /\ tpc' = [tpc EXCEPT ![t] = "append"]
            /\ UNCHANGED tret
    /\ UNCHANGED <<rateVars, tnow, tlocal>>

\* Lines 103-104: the append, and the return of True.
TAppend(t) ==
    /\ tpc[t] = "append"
    /\ operation_times' =
           [operation_times EXCEPT ![SharedOp] = Append(@, tnow[t])]
    /\ admitted' = [admitted EXCEPT ![SharedOp] = Append(@, tnow[t])]
    /\ tret' = [tret EXCEPT ![t] = "True"]
    /\ tpc' = [tpc EXCEPT ![t] = "returned"]
    /\ UNCHANGED <<now, cfgW, cfgM, lastCall, tnow, tlocal, tseen>>

\* The thread's next call of check.
MaxCallsPerThread == 2
TCallAgain(t) ==
    /\ tpc[t] = "returned"
    /\ Len(admitted[SharedOp]) < MaxCallsPerThread * Cardinality(Threads)
    /\ tpc' = [tpc EXCEPT ![t] = "idle"]
    /\ tret' = [tret EXCEPT ![t] = "none"]
    /\ UNCHANGED <<rateVars, tnow, tlocal, tseen>>

MaxThreadTime == 2
InitThreads ==
    /\ now = 0
    /\ operation_times = [o \in Ops |-> <<>>]
    /\ cfgW \in 1..MaxWindow
    /\ cfgM \in 1..MaxBudget
    /\ admitted = [o \in Ops |-> <<>>]
    /\ lastCall = NoCall
    /\ ThreadsIdle
    /\ OutsideThreadsIdle

ThreadReadsClock == \E t \in Threads : TReadClock(t) /\ UNCHANGED outsideThreads
ThreadBuildsPruned == \E t \in Threads : TBuildPruned(t) /\ UNCHANGED outsideThreads
ThreadStoresPruned == \E t \in Threads : TStorePruned(t) /\ UNCHANGED outsideThreads
ThreadCompares == \E t \in Threads : TCompare(t) /\ UNCHANGED outsideThreads
ThreadAppends == \E t \in Threads : TAppend(t) /\ UNCHANGED outsideThreads
ThreadCallsAgain == \E t \in Threads : TCallAgain(t) /\ UNCHANGED outsideThreads
ThreadClockTick ==
    /\ now < MaxThreadTime
    /\ Tick
    /\ UNCHANGED <<threadVars, outsideThreads>>

NextThreads ==
    \/ ThreadReadsClock
    \/ ThreadBuildsPruned
    \/ ThreadStoresPruned
    \/ ThreadCompares
    \/ ThreadAppends
    \/ ThreadCallsAgain
    \/ ThreadClockTick

SpecThreads == InitThreads /\ [][NextThreads]_vars

\* C4: with concurrent callers of check on one operation, no window holds
\* more than max_operations admitted calls, and a caller is denied only when
\* max_operations calls are admitted within its window.
C4_ConcurrentChecksKeepBudget ==
    /\ \A i \in 1..Len(admitted[SharedOp]) :
           AdmittedInSpanFrom(SharedOp, i, cfgW) <= cfgM
    /\ \A t \in Threads : tret[t] = "False" => tseen[t] >= cfgM

(***************************************************************************)
(* require_confirmation                                                    *)
(***************************************************************************)
T_Confirm == <<"C", "o", "n", "f", "i", "r", "m">>
T_Cancel == <<"C", "a", "n", "c", "e", "l">>
T_button_returned ==
    <<"b", "u", "t", "t", "o", "n", " ", "r", "e", "t", "u", "r", "n", "e", "d", ":">>

\* The exceptions subprocess.run raises when the dialog cannot be shown or
\* does not end in time; all of them are subclasses of Exception.
DialogErrors == {"TimeoutExpired", "FileNotFoundError", "PermissionError", "OSError"}
Exceptions == DialogErrors \cup {"Exception"}

\* Lines 177-210 without the handler of line 207: only the timeout is caught.
ConfirmationOutcomeTimeoutOnly(d) ==
    IF d.kind = "completed"
    THEN IF d.returncode = 0 /\ Contains(d.stdout, T_Confirm) THEN "True" ELSE "False"
    ELSE IF d.kind = "TimeoutExpired" THEN "False"
    ELSE "raised"

\* Lines 177-210: the return value for each way subprocess.run can end.
ConfirmationOutcome(d) ==
    IF d.kind = "completed"
    THEN IF d.returncode = 0 /\ Contains(d.stdout, T_Confirm) THEN "True" ELSE "False"
    ELSE IF d.kind = "TimeoutExpired" THEN "False"
    ELSE IF d.kind \in Exceptions THEN "False"
    ELSE "raised"

\* Lines 144-175: the call.  With an override it returns at once; without
\* one it formats the message and enters subprocess.run.  The text of the
\* message does not reach the return value.
RequireConfirmation(a) ==
    /\ cpc = "idle"
    /\ auto_confirm' = a
    /\ IF a # "None"
       THEN cpc' = "done" /\ cret' = a
       ELSE cpc' = "dialog" /\ UNCHANGED cret
    /\ UNCHANGED <<dialogRuns, dialog>>

\* Lines 179-210: subprocess.run ends as d, and the call returns.
DialogEnds(d) ==
    /\ cpc = "dialog"
    /\ dialogRuns' = dialogRuns + 1
    /\ dialog' = d
    /\ cret' = ConfirmationOutcome(d)
    /\ cpc' = "done"
    /\ UNCHANGED auto_confirm

\* What the dialog process can print and return in the model.
MaxStdoutFrags == 2
StdoutFrags ==
    { T_button_returned, T_Confirm, T_Cancel, <<"C", "o", "n">>,
      <<"f", "i", "r", "m">>, <<"c", "o", "n", "f", "i", "r", "m">> }
Stdouts == {Flatten(fs) : fs \in StringsUpTo(StdoutFrags, MaxStdoutFrags)}
ReturnCodes == {0, 1, 2}
DialogResults ==
    [kind : {"completed"}, returncode : ReturnCodes, stdout : Stdouts]
        \cup [kind : DialogErrors]

InitConfirm == ConfIdle /\ OutsideConfIdle

ConfirmationAsked ==
    \E a \in {"True", "False", "None"} : RequireConfirmation(a) /\ UNCHANGED outsideConf
ConfirmationDialogEnds ==
    \E d \in DialogResults : DialogEnds(d) /\ UNCHANGED outsideConf

NextConfirm == ConfirmationAsked \/ ConfirmationDialogEnds

SpecConfirm == InitConfirm /\ [][NextConfirm]_vars

\* C5: require_confirmation returns True exactly when the override is True
\* (no dialog process was started) or, without an override, the dialog
\* process exited 0 with "Confirm" in its output; every other outcome,
\* timeout and presentation errors included, returns False, and no error
\* leaves the call.
C5_ConfirmedOnlyByOverrideOrConfirmButton ==
    cpc = "done" =>
        /\ cret \in {"True", "False"}
        /\ cret = "True" <=>
               \/ auto_confirm = "True" /\ dialogRuns = 0
               \/ /\ auto_confirm = "None"
                  /\ dialog.kind = "completed"
                  /\ dialog.returncode = 0
                  /\ Contains(dialog.stdout, T_Confirm)
        /\ auto_confirm # "None" => (dialogRuns = 0 /\ cret = auto_confirm)

\* The dialog could not be started and the call returned False.
C5_Witness ==
    /\ cpc = "done"
    /\ auto_confirm = "None"
    /\ dialog.kind = "FileNotFoundError"
    /\ dialogRuns = 1
    /\ cret = "False"

(***************************************************************************)
(* validate_bulk_operation                                                 *)
(***************************************************************************)
\* The messages of validate_bulk_operation.
T_no_items ==
    <<"N", "o", " ", "i", "t", "e", "m", "s", " ", "s", "p", "e", "c", "i",
      "f", "i", "e", "d", " ", "f", "o", "r", " ", "o", "p", "e", "r", "a",
      "t", "i", "o", "n">>
TooManyItems(item_count, max_items) ==
    <<"T", "o", "o", " ", "m", "a", "n", "y", " ", "i", "t", "e", "m", "s", " ", "(">>
        \o IntText(item_count)
        \o <<")", ",", " ", "m", "a", "x", "i", "m", "u", "m", " ", "i", "s", " ">>
        \o IntText(max_items)

\* validate_bulk_operation without the comparison with max_items.
validate_bulk_no_maximum(item_count, max_items) ==
    IF item_count = 0 THEN <<FALSE, T_no_items>>
    ELSE <<TRUE, <<>>>>

\* validate_bulk_operation that compares with >= instead of >.
validate_bulk_below_maximum(item_count, max_items) ==
    IF item_count = 0 THEN <<FALSE, T_no_items>>
    ELSE IF item_count >= max_items
    THEN <<FALSE, TooManyItems(item_count, max_items)>>
    ELSE <<TRUE, <<>>>>

\* The result is the pair <<is_valid, error_message>>.
validate_bulk_operation(item_count, max_items) ==
    IF item_count = 0 THEN <<FALSE, T_no_items>>
    ELSE IF item_count > max_items
    THEN <<FALSE, TooManyItems(item_count, max_items)>>
    ELSE <<TRUE, <<>>>>

(***************************************************************************)
(* The bridge call.  The connector module is not among the sources; the    *)
(* pipeline below follows the design document: Input Validator, Security   *)
(* Gate (rate limit, bulk size, confirmation), Script Builder and Process  *)
(* Executor, Error Classifier, Result Parser.  The validator and the gate  *)
(* use validate_message_id, RateLimiter.check, validate_bulk_operation and *)
(* require_confirmation as modelled above.                                 *)
(***************************************************************************)
T_cant_get_account ==
    <<"C", "a", "n", "'", "t", " ", "g", "e", "t", " ", "a", "c", "c", "o", "u", "n", "t">>
T_cant_get_mailbox ==
    <<"C", "a", "n", "'", "t", " ", "g", "e", "t", " ", "m", "a", "i", "l", "b", "o", "x">>
T_cant_get_message ==
    <<"C", "a", "n", "'", "t", " ", "g", "e", "t", " ", "m", "e", "s", "s", "a", "g", "e">>
T_timeout == <<"t", "i", "m", "e", "o", "u", "t">>

\* The operations that ask the user before they act.
SensitiveOps == {"delete_messages"}

\* Input Validator: the local result that ends the call before the gate, or
\* [kind |-> "none"].  An empty id list to mark_as_read is answered with 0;
\* a save directory that does not exist or is a traversal target raises.
RequestRejection(req) ==
    IF req.op = "mark_as_read" /\ req.ids = <<>>
    THEN [kind |-> "ok", value |-> 0]
    ELSE IF \E i \in 1..Len(req.ids) : ~validate_message_id(req.ids[i])
    THEN [kind |-> "ValidationError", message |-> "invalid message id"]
    ELSE IF req.op = "save_attachments" /\ req.dir # "exists"
    THEN [kind |-> "InvalidDirectory", message |-> req.dir]
    ELSE [kind |-> "none"]

\* Security Gate: rate limit, then bulk size, then confirmation.
GateVerdict(rateOk, bulkOk, confirm) ==
    IF ~rateOk THEN "RateLimited"
    ELSE IF ~bulkOk THEN "ValidationError"
    ELSE IF confirm = "False" THEN "ConfirmationDenied"
    ELSE "admitted"

\* Error Classifier with the exit code tested before the stderr patterns.
ClassifyExitCodeFirst(p) ==
    IF p.kind = "timeout" THEN [kind |-> "Timeout", message |-> T_timeout]
    ELSE IF p.returncode # 0 THEN [kind |-> "AppleScriptError", message |-> p.stderr]
    ELSE IF Contains(p.stderr, T_cant_get_account)
    THEN [kind |-> "AccountNotFound", message |-> p.stderr]
    ELSE IF Contains(p.stderr, T_cant_get_mailbox)
    THEN [kind |-> "MailboxNotFound", message |-> p.stderr]
    ELSE IF Contains(p.stderr, T_cant_get_message)
    THEN [kind |-> "MessageNotFound", message |-> p.stderr]
    ELSE IF p.stderr # <<>> THEN [kind |-> "AppleScriptError", message |-> p.stderr]
    ELSE [kind |-> "none"]

\* Error Classifier that takes a timeout for a run without output.
ClassifyTimeoutAsEmpty(p) ==
    IF p.kind = "timeout" THEN [kind |-> "none"]
    ELSE IF Contains(p.stderr, T_cant_get_account)
    THEN [kind |-> "AccountNotFound", message |-> p.stderr]
    ELSE IF Contains(p.stderr, T_cant_get_mailbox)
    THEN [kind |-> "MailboxNotFound", message |-> p.stderr]
    ELSE IF Contains(p.stderr, T_cant_get_message)
    THEN [kind |-> "MessageNotFound", message |-> p.stderr]
    ELSE IF p.returncode # 0 \/ p.stderr # <<>>
    THEN [kind |-> "AppleScriptError", message |-> p.stderr]
    ELSE [kind |-> "none"]

\* Error Classifier: the typed failure of a process outcome, or
\* [kind |-> "none"] for a clean exit.  The stderr patterns are tried in the
\* order account, mailbox, message; any other nonzero exit or stderr
\* content is the generic failure.
Classify(p) ==
    IF p.kind = "timeout" THEN [kind |-> "Timeout", message |-> T_timeout]
    ELSE IF Contains(p.stderr, T_cant_get_account)
    THEN [kind |-> "AccountNotFound", message |-> p.stderr]
    ELSE IF Contains(p.stderr, T_cant_get_mailbox)
    THEN [kind |-> "MailboxNotFound", message |-> p.stderr]
    ELSE IF Contains(p.stderr, T_cant_get_message)
    THEN [kind |-> "MessageNotFound", message |-> p.stderr]
    ELSE IF p.returncode # 0 \/ p.stderr # <<>>
    THEN [kind |-> "AppleScriptError", message |-> p.stderr]
    ELSE [kind |-> "none"]

\* The requests of the model.
MaxBridgeIds == 3
BulkMax == 2
Requests ==
    LET IdSamples == { <<"1", "2">>, <<"x", " ">> }
    IN  [op : {"mark_as_read", "delete_messages"},
         ids : StringsUpTo(IdSamples, MaxBridgeIds), dir : {"n/a"}]
            \cup [op : {"save_attachments"}, ids : [1..1 -> IdSamples],
                  dir : {"exists", "missing", "traversal"}]

\* The answers of the confirmation dialog of the model.
GateDialogs ==
    { [kind |-> "completed", returncode |-> 0, stdout |-> T_button_returned \o T_Confirm],
      [kind |-> "completed", returncode |-> 1, stdout |-> <<>>],
      [kind |-> "TimeoutExpired"] }

\* The ways the interpreter process ends in the model.
MaxStderrFrags == 2
Stderrs ==
    LET StderrFrags ==
            { T_cant_get_account, T_cant_get_mailbox, T_cant_get_message,
              <<" ", DQ, "X", DQ>>, <<"e", "r", "r", "o", "r", ":", " ">> }
    IN  {Flatten(fs) : fs \in StringsUpTo(StderrFrags, MaxStderrFrags)}
ProcessOutcomes ==
    [kind : {"exit"}, returncode : {0, 1},
     stdout : { <<>>, <<"2">>, <<"1", "2", "|", "S">> }, stderr : Stderrs]
        \cup {[kind |-> "timeout"]}

\* The caller's parameters reach the Input Validator.
BridgeCall(req) ==
    /\ bpc = "idle"
    /\ request' = req
    /\ LET rejection == RequestRejection(req)
       IN  IF rejection.kind = "none"
           THEN bpc' = "gate" /\ UNCHANGED bresult
           ELSE bpc' = "done" /\ bresult' = rejection
    /\ UNCHANGED <<gate, execCount, proc, classified, parsedStdout, rateVars, outsideBridge>>

\* Security Gate; d is the answer of the dialog, if it is shown.
BridgeGate(d) ==
    /\ bpc = "gate"
    /\ Check(request.op, cfgW, cfgM)
    /\ LET rateOk == lastCall'.result
           bulkOk == rateOk /\ validate_bulk_operation(Len(request.ids), BulkMax)[1]
           confirm == IF bulkOk /\ request.op \in SensitiveOps
                      THEN ConfirmationOutcome(d) ELSE "n/a"
           verdict == GateVerdict(rateOk, bulkOk, confirm)
       IN  /\ gate' = [rate |-> rateOk, bulk |-> bulkOk, confirm |-> confirm]
           /\ IF verdict = "admitted"
              THEN bpc' = "execute" /\ UNCHANGED bresult
              ELSE bpc' = "done" /\ bresult' = [kind |-> verdict, message |-> "gate"]
    /\ UNCHANGED <<request, execCount, proc, classified, parsedStdout, outsideBridge>>

\* Script Builder and Process Executor: the interpreter is started.
BridgeExecute ==
    /\ bpc = "execute"
    /\ execCount' = execCount + 1
    /\ bpc' = "running"
    /\ UNCHANGED <<request, gate, proc, classified, parsedStdout, bresult, rateVars, outsideBridge>>

\* The interpreter exits, or the timeout ends it.
ProcessEnds(p) ==
    /\ bpc = "running"
    /\ proc' = p
    /\ bpc' = "classify"
    /\ UNCHANGED <<request, gate, execCount, classified, parsedStdout, bresult, rateVars, outsideBridge>>

\* Error Classifier
BridgeClassify ==
    /\ bpc = "classify"
    /\ classified' = TRUE
    /\ LET failure == Classify(proc)
       IN  IF failure.kind = "none"
           THEN bpc' = "parse" /\ UNCHANGED bresult
           ELSE bpc' = "done" /\ bresult' = failure
    /\ UNCHANGED <<request, gate, execCount, proc, parsedStdout, rateVars, outsideBridge>>

\* Result Parser
BridgeParse ==
    /\ bpc = "parse"
    /\ parsedStdout' = TRUE
    /\ bresult' = [kind |-> "ok", value |-> proc.stdout]
    /\ bpc' = "done"
    /\ UNCHANGED <<request, gate, execCount, proc, classified, rateVars, outsideBridge>>

\* Earlier admitted calls may have used up a part of each operation's budget.
InitBridge ==
    /\ now = 0
    /\ cfgW = 1
    /\ cfgM \in 1..MaxBudget
    /\ \E n \in 0..cfgM :
           /\ operation_times = [o \in Ops |-> [i \in 1..n |-> 0]]
           /\ admitted = [o \in Ops |-> [i \in 1..n |-> 0]]
    /\ lastCall = NoCall
    /\ BridgeIdle
    /\ OutsideBridgeIdle

NextBridge ==
    \/ \E req \in Requests : BridgeCall(req)
    \/ \E d \in GateDialogs : BridgeGate(d)
    \/ BridgeExecute
    \/ \E p \in ProcessOutcomes : ProcessEnds(p)
    \/ BridgeClassify
    \/ BridgeParse

SpecBridge == InitBridge /\ [][NextBridge]_vars

LocalFailures ==
    {"ValidationError", "InvalidDirectory", "RateLimited", "ConfirmationDenied"}

ProcessFailed == proc.kind = "timeout" \/ (proc.kind = "exit" /\ proc.returncode # 0)

C8_TimeoutIsClassifiedFailure ==
    /\ execCount <= 1
    /\ proc.kind = "timeout" =>
           /\ ~parsedStdout
           /\ bpc # "parse"
           /\ bpc = "done" =>
                  /\ bresult.kind = "Timeout"
                  /\ Contains(bresult.message, T_timeout)
                  /\ execCount = 1

\* A call ended with the timeout failure.
C8_Witness ==
    /\ bpc = "done"
    /\ proc.kind = "timeout"
    /\ bresult.kind = "Timeout"
    /\ execCount = 1

(***************************************************************************)
(* sanitize_mailbox_name                                                   *)
(***************************************************************************)
\* str.replace(old, new): the occurrences of old are found left to right and
\* do not overlap; the text that results is not searched again.
RECURSIVE ReplaceAll(_, _, _)
ReplaceAll(s, old, new) ==
    IF Len(s) < Len(old) THEN s
    ELSE IF HasAt(s, 1, old)
    THEN new \o ReplaceAll(SubSeq(s, Len(old) + 1, Len(s)), old, new)
    ELSE <<Head(s)>> \o ReplaceAll(Tail(s), old, new)

\* [<>:"|?*]
DangerousChars == {"<", ">", ":", DQ, "|", "?", "*"}

sanitize_mailbox_name(name) ==
    LET n1 == ReplaceAll(name, <<NUL>>, <<>>)
        n2 == ReplaceAll(n1, <<".", ".">>, <<>>)
        n3 == ReplaceAll(n2, <<"/">>, <<>>)
        n4 == ReplaceAll(n3, <<BSL>>, <<>>)
        n5 == SelectSeq(n4, LAMBDA c : c \notin DangerousChars)
    IN  Strip(n5)

MaxMailboxLen == 4
MailboxInputs == StringsUpTo({NUL, ".", "/", BSL, "<", "*", SP, "a"}, MaxMailboxLen)

(***************************************************************************)
(* validate_email                                                          *)
(***************************************************************************)
MaxEmailLen == 254
MaxLocalLen == 64
MaxDomainLen == 253
MaxLabelLen == 63

IsAlnum(c) == IsUpper(c) \/ IsLower(c) \/ IsDigit(c)

\* What a pattern that ends in $ is matched against: $ matches at the end of
\* the string and also just before a line feed that ends the string.
BeforeDollar(s) ==
    IF s # <<>> /\ s[Len(s)] = LF THEN SubSeq(s, 1, Len(s) - 1) ELSE s

\* re.match(r'^[a-zA-Z0-9._%+-]+$', local)
LocalPatternMatch(local) ==
    LET body == BeforeDollar(local)
    IN  /\ body # <<>>
        /\ \A i \in 1..Len(body) : IsAlnum(body[i]) \/ body[i] \in {".", "_", "%", "+", "-"}

\* [a-zA-Z0-9]([a-zA-Z0-9-]{0,61}[a-zA-Z0-9])?
LabelMatch(label) ==
    /\ Len(label) >= 1 /\ Len(label) <= MaxLabelLen
    /\ IsAlnum(label[1]) /\ IsAlnum(label[Len(label)])
    /\ \A i \in 1..Len(label) : IsAlnum(label[i]) \/ label[i] = "-"

\* re.match(domain_pattern, domain): labels, then a dot and two or more
\* letters.  No class of the pattern holds a dot, so the labels are the
\* pieces between the dots.
DomainPatternMatch(domain) ==
    LET labels == SplitBy(BeforeDollar(domain), ".")
        n == Len(labels)
    IN  /\ n >= 2
        /\ \A i \in 1..(n - 1) : LabelMatch(labels[i])
        /\ Len(labels[n]) >= 2
        /\ \A i \in 1..Len(labels[n]) : IsUpper(labels[n][i]) \/ IsLower(labels[n][i])

validate_email(email) ==
    LET ats == {i \in 1..Len(email) : email[i] = "@"}
        at == CHOOSE i \in ats : TRUE
        local == SubSeq(email, 1, at - 1)
        domain == SubSeq(email, at + 1, Len(email))
    IN  IF email = <<>> \/ Len(email) > MaxEmailLen THEN FALSE
        ELSE IF Cardinality(ats) # 1 THEN FALSE
        ELSE IF local = <<>> \/ Len(local) > MaxLocalLen THEN FALSE
        ELSE IF domain = <<>> \/ Len(domain) > MaxDomainLen THEN FALSE
        ELSE IF Contains(email, <<".", ".">>) THEN FALSE
        ELSE IF StartsWith(local, <<".">>) \/ EndsWith(local, <<".">>) THEN FALSE
        ELSE IF ~LocalPatternMatch(local) THEN FALSE
        ELSE IF ~DomainPatternMatch(domain) THEN FALSE
        ELSE TRUE

\* The addresses of the model: up to MaxEmailFrags pieces in a row.
MaxEmailFrags == 4
EmailInputs ==
    LET EmailFrags ==
            { <<"a", "@", "a", ".">>, <<"-">>, <<".">>, <<"@">>, <<"c", "o">>, <<LF>>,
              [i \in 1..MaxLabelLen |-> "b"], [i \in 1..190 |-> "b"] }
    IN  {Flatten(fs) : fs \in StringsUpTo(EmailFrags, MaxEmailFrags)}

(***************************************************************************)
(* validate_send_operation                                                 *)
(***************************************************************************)
MaxRecipients == 100

\* separator.join(strings)
RECURSIVE Join(_, _)
Join(strings, separator) ==
    IF strings = <<>> THEN <<>>
    ELSE IF Len(strings) = 1 THEN strings[1]
    ELSE strings[1] \o separator \o Join(Tail(strings), separator)

\* validate_send_operation that reports the first invalid address only.
validate_send_first_invalid(to, cc, bcc) ==
    LET all_recipients == to \o cc \o bcc
        invalid_emails == SelectSeq(all_recipients, LAMBDA email : ~validate_email(email))
    IN  IF to = <<>> THEN <<FALSE, <<"r", "e", "q", "u", "i", "r", "e", "d">>>>
        ELSE IF invalid_emails # <<>>
        THEN <<FALSE, <<"I", "n", "v", "a", "l", "i", "d", ":", " ">> \o invalid_emails[1]>>
        ELSE IF Len(all_recipients) > MaxRecipients
        THEN <<FALSE, <<"T", "o", "o", " ", "m", "a", "n", "y">>>>
        ELSE <<TRUE, <<>>>>

\* The result is the pair <<is_valid, error_message>>.  cc and bcc are
\* lists: None is taken as the empty list by (cc or []).
validate_send_operation(to, cc, bcc) ==
    LET T_to_required ==
            <<"A", "t", " ", "l", "e", "a", "s", "t", " ", "o", "n", "e", " ", "'",
              "t", "o", "'", " ", "r", "e", "c", "i", "p", "i", "e", "n", "t", " ",
              "i", "s", " ", "r", "e", "q", "u", "i", "r", "e", "d">>
        T_invalid_addresses ==
            <<"I", "n", "v", "a", "l", "i", "d", " ", "e", "m", "a", "i", "l", " ",
              "a", "d", "d", "r", "e", "s", "s", "e", "s", ":", " ">>
        T_too_many_recipients ==
            <<"T", "o", "o", " ", "m", "a", "n", "y", " ", "r", "e", "c", "i", "p",
              "i", "e", "n", "t", "s", " ", "(", "m", "a", "x", ":", " ">>
        all_recipients == to \o cc \o bcc
        invalid_emails == SelectSeq(all_recipients, LAMBDA email : ~validate_email(email))
    IN  IF to = <<>> THEN <<FALSE, T_to_required>>
        ELSE IF invalid_emails # <<>>
        THEN <<FALSE, T_invalid_addresses \o Join(invalid_emails, <<",", " ">>)>>
        ELSE IF Len(all_recipients) > MaxRecipients
        THEN <<FALSE, T_too_many_recipients \o IntText(MaxRecipients) \o <<")">>>>
        ELSE <<TRUE, <<>>>>

\* The recipient lists of the model: lists of up to MaxListLen addresses, one
\* valid and two invalid (bcc: at most one address), and a 'to' list that
\* holds MaxRecipients addresses.
MaxListLen == 2
SendInputs ==
    LET valid == <<"a", "@", "a", ".", "c", "o">>
        lists == StringsUpTo({valid, <<"a", "@">>, <<"-">>}, MaxListLen)
    IN  [to : lists \cup {[i \in 1..MaxRecipients |-> valid]}, cc : lists,
         bcc : {l \in lists : Len(l) <= 1}]

\* validate_attachment_type: the extensions that are blocked by default
dangerous_extensions ==
    { <<".", "e", "x", "e">>, <<".", "b", "a", "t">>, <<".", "c", "m", "d">>,
      <<".", "c", "o", "m">>, <<".", "s", "c", "r">>, <<".", "p", "i", "f">>,
      <<".", "v", "b", "s">>, <<".", "v", "b", "e">>, <<".", "j", "s">>,
      <<".", "j", "s", "e">>, <<".", "w", "s", "f">>, <<".", "w", "s", "h">>,
      <<".", "m", "s", "i">>, <<".", "m", "s", "p">>, <<".", "s", "c", "f">>,
      <<".", "l", "n", "k">>, <<".", "i", "n", "f">>, <<".", "r", "e", "g">>,
      <<".", "p", "s", "1">>, <<".", "p", "s", "m", "1">>, <<".", "a", "p", "p">>,
      <<".", "d", "e", "b">>, <<".", "r", "p", "m">>, <<".", "s", "h">>,
      <<".", "b", "a", "s", "h">>, <<".", "c", "s", "h">>, <<".", "k", "s", "h">>,
      <<".", "z", "s", "h">>, <<".", "c", "o", "m", "m", "a", "n", "d">> }

\* validate_attachment_type that compares the name as it is written.
validate_attachment_type_as_written(filename, allow_executables) ==
    IF \E ext \in dangerous_extensions : EndsWith(filename, ext)
    THEN allow_executables
    ELSE TRUE

validate_attachment_type(filename, allow_executables) ==
    LET filename_lower == Lower(filename)
    IN  IF \E ext \in dangerous_extensions : EndsWith(filename_lower, ext)
        THEN allow_executables
        ELSE TRUE

(***************************************************************************)
(* One call of a validation function of utils.py or security.py: arg is    *)
(* the function's name f and its argument a.                               *)
(***************************************************************************)
ApplyValidator(call) ==
    CASE call.f = "sanitize_mailbox_name" -> sanitize_mailbox_name(call.a)
      [] call.f = "validate_email" -> validate_email(call.a)
      [] call.f = "validate_send_operation" ->
             validate_send_operation(call.a.to, call.a.cc, call.a.bcc)
      [] call.f = "validate_attachment_type" ->
            validate_attachment_type(call.a.filename, call.a.allow_executables)
      [] call.f = "validate_bulk_operation" ->
             validate_bulk_operation(call.a.item_count, call.a.max_items)

ValidatorCalls ==
    {[f |-> "sanitize_mailbox_name", a |-> name] : name \in MailboxInputs}
        \cup {[f |-> "validate_email", a |-> email] : email \in EmailInputs}

InitValidator ==
    /\ fn = "none"
    /\ arg \in ValidatorCalls
    /\ ret = <<>>
    /\ OutsidePureIdle

CallValidator ==
    /\ fn = "none"
    /\ fn' = arg.f
    /\ ret' = ApplyValidator(arg)
    /\ UNCHANGED <<arg, outsidePure>>

SpecValidator == InitValidator /\ [][CallValidator]_vars

\* The same for the validation functions of the security gate.
MaxItemCount == 12
MaxBulkLimit == 11
\* The attachment names of the calls: up to MaxTypeFrags fragments in a row.
MaxTypeFrags == 3
AttachmentTypeInputs ==
    LET TypeFrags ==
            { <<"a">>, <<".">>, <<"e", "x", "e">>, <<".", "E", "x", "E">>, <<".", "S", "h">>,
              <<".", "p", "d", "f">>, <<".", "j", "s">>, <<"o", "n">> }
    IN  [filename : {Flatten(fs) : fs \in StringsUpTo(TypeFrags, MaxTypeFrags)},
         allow_executables : BOOLEAN]
GateValidatorCalls ==
    {[f |-> "validate_send_operation", a |-> lists] : lists \in SendInputs}
        \cup {[f |-> "validate_attachment_type", a |-> named] : named \in AttachmentTypeInputs}
        \cup {[f |-> "validate_bulk_operation", a |-> counts] :
                  counts \in [item_count : (0 - MaxItemCount)..MaxItemCount,
                              max_items : 0..MaxBulkLimit]}

InitGateValidator ==
    /\ fn = "none"
    /\ arg \in GateValidatorCalls
    /\ ret = <<>>
    /\ OutsidePureIdle

SpecGateValidator == InitGateValidator /\ [][CallValidator]_vars

\* C11: the result of sanitize_mailbox_name has no NUL, no "..", no "/", no
\* backslash, none of the characters < > : " | ? * and no whitespace at its
\* start or end.
C11_MailboxNameClean ==
    fn = "sanitize_mailbox_name" =>
        /\ \A i \in 1..Len(ret) : ret[i] \notin ({NUL, "/", BSL} \cup DangerousChars)
        /\ ~Contains(ret, <<".", ".">>)
        /\ ret = <<>> \/ (ret[1] \notin Whitespace /\ ret[Len(ret)] \notin Whitespace)

\* C12: an accepted address has exactly one "@", a local part of 1 to 64
\* characters of [A-Za-z0-9._%+-] that neither starts nor ends with a dot,
\* no ".." anywhere, a domain of at most 253 characters whose labels hold
\* letters, digits and hyphens only and neither start nor end with a
\* hyphen, a last label of two or more letters, and at most 254 characters.
C12_AcceptedEmailMatchesGrammar ==
    (fn = "validate_email" /\ ret = TRUE) =>
        LET email == arg.a
            ats == {i \in 1..Len(email) : email[i] = "@"}
            at == CHOOSE i \in ats : TRUE
            local == SubSeq(email, 1, at - 1)
            domain == SubSeq(email, at + 1, Len(email))
            labels == SplitBy(domain, ".")
            last == labels[Len(labels)]
        IN  /\ Cardinality(ats) = 1
            /\ Len(email) <= MaxEmailLen
            /\ Len(local) >= 1 /\ Len(local) <= MaxLocalLen
            /\ \A i \in 1..Len(local) :
                   IsAlnum(local[i]) \/ local[i] \in {".", "_", "%", "+", "-"}
            /\ local[1] # "." /\ local[Len(local)] # "."
            /\ ~Contains(email, <<".", ".">>)
            /\ Len(domain) <= MaxDomainLen
            /\ \A k \in 1..Len(labels) :
                   /\ labels[k] # <<>>
                   /\ \A i \in 1..Len(labels[k]) :
                          IsAlnum(labels[k][i]) \/ labels[k][i] = "-"
                   /\ labels[k][1] # "-" /\ labels[k][Len(labels[k])] # "-"
            /\ Len(last) >= 2
            /\ \A i \in 1..Len(last) : IsUpper(last[i]) \/ IsLower(last[i])

\* The addresses of a send request that validate_email rejects.
InvalidRecipients ==
    {e \in Range(arg.a.to \o arg.a.cc \o arg.a.bcc) : ~validate_email(e)}

\* The first part of C13: (True, "") exactly when 'to' is not empty, every
\* address is valid and there are at most 100; otherwise False and a message.
SendVerdictRight ==
    /\ ret[1] = TRUE <=>
           /\ arg.a.to # <<>>
           /\ InvalidRecipients = {}
           /\ Len(arg.a.to) + Len(arg.a.cc) + Len(arg.a.bcc) <= MaxRecipients
    /\ ret[1] = TRUE => ret[2] = <<>>
    /\ ret[1] = FALSE => ret[2] # <<>>

\* C13 as stated: validate_send_operation returns (True, "") exactly when
\* 'to' is not empty, all addresses are valid and there are at most 100 of
\* them, otherwise False with a message, and whenever an address is invalid
\* the message names every invalid address.
C13_SendValidation ==
    fn = "validate_send_operation" =>
        /\ SendVerdictRight
        /\ \A e \in InvalidRecipients : Contains(ret[2], e)

\* C13, amended: as above, but the message names every invalid address when
\* 'to' is not empty; with an empty 'to' the message is the one about the
\* missing recipient.
C13_SendValidationAmended ==
    fn = "validate_send_operation" =>
        /\ SendVerdictRight
        /\ arg.a.to # <<>> => \A e \in InvalidRecipients : Contains(ret[2], e)

\* A request with two different invalid addresses in different lists was
\* refused, and the message names both.
C13_Witness ==
    /\ fn = "validate_send_operation"
    /\ arg.a.to # <<>>
    /\ \E e1 \in Range(arg.a.to), e2 \in Range(arg.a.bcc) :
           e1 # e2 /\ {e1, e2} \subseteq InvalidRecipients
    /\ ret[1] = FALSE
    /\ \A e \in InvalidRecipients : Contains(ret[2], e)

\* s in lower case holds word.
MessageSays(s, word) == Contains(Lower(s), word)

\* The parts of C14 that do not depend on the maximum: no items are refused
\* with a "no items" message, more than max_items with a "too many" message,
\* and the flag is True exactly when the message is empty.
BulkVerdictRight ==
    /\ arg.a.item_count = 0 =>
           (ret[1] = FALSE /\ MessageSays(ret[2], <<"n", "o", " ", "i", "t", "e", "m", "s">>))
    /\ arg.a.item_count > arg.a.max_items =>
           (ret[1] = FALSE /\ MessageSays(ret[2], <<"t", "o", "o", " ", "m", "a", "n", "y">>))
    /\ ret[1] = TRUE <=> ret[2] = <<>>

\* C14 as stated: validate_bulk_operation refuses zero items ("no items")
\* and more than max_items ("too many"), accepts exactly max_items items
\* with an empty message, and its flag is True exactly when the message is
\* empty.
C14_BulkValidation ==
    fn = "validate_bulk_operation" =>
        /\ BulkVerdictRight
        /\ arg.a.item_count = arg.a.max_items => ret = <<TRUE, <<>>>>

\* C14, amended: the same for a maximum of at least 1.
C14_BulkValidationAmended ==
    fn = "validate_bulk_operation" =>
        /\ BulkVerdictRight
        /\ (arg.a.item_count = arg.a.max_items /\ arg.a.max_items >= 1) =>
               ret = <<TRUE, <<>>>>

\* A batch of exactly max_items items, ten or more, was accepted.
C14_Witness ==
    /\ fn = "validate_bulk_operation"
    /\ arg.a.item_count = arg.a.max_items
    /\ arg.a.max_items >= 10
    /\ ret = <<TRUE, <<>>>>

(***************************************************************************)
(* RateLimiter with several operation names, its reset, and checks whose   *)
(* window and budget differ from call to call.                             *)
(***************************************************************************)
\* The value None; no operation name of the model is spelled like it.
None == "None"

\* RateLimiter.reset(operation): "if operation:" is false for None and for
\* the empty string, and then every history is cleared.
Reset(operation) ==
    /\ IF operation \notin {None, ""}
       THEN /\ operation_times' = [operation_times EXCEPT ![operation] = <<>>]
            /\ admitted' = [admitted EXCEPT ![operation] = <<>>]
       ELSE /\ operation_times' = [o \in Ops |-> <<>>]
            /\ admitted' = [o \in Ops |-> <<>>]
    /\ UNCHANGED <<now, cfgW, cfgM, lastCall>>

\* The operation names, windows and budgets of the calls, and the last
\* moment of the clock.
LimiterOps == {"send_email", "delete_messages"}
LimiterWindows == {1, 2}
LimiterBudgets == {1, 2}
MaxLimiterTime == 2

InitLimiter == RateIdle /\ OutsideRateIdle

LimiterCheck(operation, window_seconds, max_operations) ==
    Check(operation, window_seconds, max_operations) /\ UNCHANGED outsideRate

LimiterReset(operation) == Reset(operation) /\ UNCHANGED outsideRate

LimiterTick == now < MaxLimiterTime /\ Tick /\ UNCHANGED outsideRate

NextLimiter ==
    \/ \E o \in LimiterOps, w \in LimiterWindows, m \in LimiterBudgets :
           LimiterCheck(o, w, m)
    \/ \E o \in LimiterOps \cup {None, ""} : LimiterReset(o)
    \/ LimiterTick

SpecLimiter == InitLimiter /\ [][NextLimiter]_vars

\* C15: a check on one operation leaves the history of every other operation
\* as it was, and a check is denied only when the operation itself has
\* max_operations admitted checks in its window: the budget used by another
\* operation never causes a denial.
C15_BudgetsIndependent ==
    [][ /\ \A a \in LimiterOps, w \in LimiterWindows, m \in LimiterBudgets :
               Check(a, w, m) =>
                   \A b \in Ops \ {a} : operation_times'[b] = operation_times[b]
        /\ (lastCall' # NoCall /\ ~lastCall'.result) =>
               lastCall'.before >= lastCall'.max ]_vars

\* A check was admitted while another operation had used up a budget of the
\* same size in the same window.
C15_Witness ==
    /\ lastCall # NoCall
    /\ lastCall.result
    /\ \E a \in LimiterOps \ {lastCall.op} :
           RecordedInWindow(a, lastCall.at, lastCall.window) >= lastCall.max

\* C16: a check with max_operations >= 1 made when fewer than max_operations
\* recorded timestamps of the operation are younger than window_seconds is
\* admitted; so is the first check made window_seconds after the oldest of
\* the admissions that used up the budget.
C16_AdmittedBelowBudget ==
    (lastCall # NoCall /\ lastCall.max >= 1 /\ lastCall.recorded < lastCall.max) =>
        lastCall.result

\* max_operations admissions used up the budget, and the check made exactly
\* window_seconds after the oldest of them was admitted, without a reset.
C16_Witness ==
    /\ lastCall # NoCall
    /\ lastCall.result
    /\ Len(admitted[lastCall.op]) = lastCall.max + 1
    /\ lastCall.at = admitted[lastCall.op][1] + lastCall.window
    /\ lastCall.recorded = lastCall.max - 1

\* C17: reset(op) with an operation name empties the history of op only,
\* reset() empties every history, and the check that follows a reset of op
\* is admitted.
C17_ResetClearsNamedOnly ==
    [][ /\ \A o \in LimiterOps \cup {""} :
               Reset(o) =>
                   /\ o \in Ops => operation_times'[o] = <<>>
                   /\ \A b \in Ops \ {o} : operation_times'[b] = operation_times[b]
        /\ Reset(None) => \A b \in Ops : operation_times'[b] = <<>>
        /\ \A o \in LimiterOps, w \in LimiterWindows, m \in LimiterBudgets :
               (operation_times[o] = <<>> /\ m >= 1 /\ Check(o, w, m)) =>
                   lastCall'.result ]_vars

\* C18: after a check the history of its operation is in non-decreasing
\* order and holds no timestamp older than window_seconds before the check.
C18_HistorySortedAndFresh ==
    lastCall # NoCall =>
        LET history == operation_times[lastCall.op]
        IN  /\ \A i \in 1..(Len(history) - 1) : history[i] <= history[i + 1]
            /\ \A i \in 1..Len(history) : history[i] >= lastCall.at - lastCall.window

\* A check pruned an old timestamp and left two timestamps of different
\* moments.
C18_Witness ==
    /\ lastCall # NoCall
    /\ Len(operation_times[lastCall.op]) = 2
    /\ operation_times[lastCall.op][1] < operation_times[lastCall.op][2]
    /\ Len(admitted[lastCall.op]) > 2

(***************************************************************************)
(* OperationLogger and the gate functions that work on the module's        *)
(* operation_logger and rate_limiter                                       *)
(***************************************************************************)
\* log_operation that keeps the newest record in front.
log_operation_in_front(trail, operation, parameters, result) ==
    <<[timestamp |-> now, operation |-> operation,
       parameters |-> parameters, result |-> result]>> \o trail

\* OperationLogger.log_operation: the trail after the call.
log_operation(trail, operation, parameters, result) ==
    Append(trail, [timestamp |-> now, operation |-> operation,
                   parameters |-> parameters, result |-> result])

\* OperationLogger.get_recent_operations: trail[-limit:], which is the whole
\* trail for limit 0 and for a limit beyond its length.
get_recent_operations(trail, limit) ==
    IF limit = 0 \/ limit >= Len(trail) THEN trail
    ELSE SubSeq(trail, Len(trail) - limit + 1, Len(trail))

MaxTrailLen == 2
LogResults == {"success", "failure", "cancelled"}

LogOperation(operation, parameters, result) ==
    /\ Len(operations) < MaxTrailLen
    /\ operations' = log_operation(operations, operation, parameters, result)
    /\ UNCHANGED <<recent, outsideLog>>

GetRecentOperations(limit) ==
    /\ recent' = get_recent_operations(operations, limit)
    /\ UNCHANGED <<operations, outsideLog>>

\* rate_limit_check(operation, window_seconds, max_operations)
RateLimitCheck(operation, window_seconds, max_operations) ==
    Check(operation, window_seconds, max_operations) /\ UNCHANGED outsideRate

InitAudit == RateIdle /\ OutsideRateIdle

NextAudit ==
    \/ \E o \in LimiterOps, r \in LogResults : LogOperation(o, [count |-> 1], r)
    \/ \E limit \in 0..MaxTrailLen : GetRecentOperations(limit)
    \/ RateLimitCheck("send_email", 1, 1)
    \/ \E a \in {"True", "False", "None"} : RequireConfirmation(a) /\ UNCHANGED outsideConf
    \/ \E d \in GateDialogs : DialogEnds(d) /\ UNCHANGED outsideConf

SpecAudit == InitAudit /\ [][NextAudit]_vars

\* C19: every rate_limit_check call and every require_confirmation call,
\* whatever its outcome, adds one record with the operation name and the
\* result to the audit trail.
C19_GatedAttemptsLogged ==
    [][ (RateLimitCheck("send_email", 1, 1) \/ (cpc # "done" /\ cpc' = "done")) =>
            /\ Len(operations') = Len(operations) + 1
            /\ operations'[Len(operations')].operation \in Ops ]_vars

\* C20: log_operation adds one record at the end of the trail and leaves
\* the earlier records as they were, get_recent_operations changes nothing,
\* and no step removes, reorders or rewrites a record.
C20_TrailAppendOnly ==
    [][ /\ Len(operations') \in {Len(operations), Len(operations) + 1}
        /\ SubSeq(operations', 1, Len(operations)) = operations
        /\ \A o \in LimiterOps, r \in LogResults :
               LogOperation(o, [count |-> 1], r) =>
                   /\ Len(operations') = Len(operations) + 1
                   /\ operations'[Len(operations')].operation = o
                   /\ operations'[Len(operations')].result = r
        /\ \A limit \in 0..MaxTrailLen :
               GetRecentOperations(limit) => operations' = operations ]_vars

\* The trail holds two different records in the order they were logged, and
\* get_recent_operations(1) returned the newer one.
C20_Witness ==
    /\ Len(operations) = 2
    /\ operations[1].operation # operations[2].operation
    /\ recent = <<operations[2]>>

\* C21: the audit trail is a bounded ring: there is a fixed capacity that the
\* number of retained records never exceeds, however many log_operation
\* calls are made (here: a capacity below the number of calls of a run).
C21_TrailBoundedRing ==
    \E capacity \in 1..(MaxTrailLen - 1) : Len(operations) <= capacity

(***************************************************************************)
(* AppleMailConnector.search_messages: the script it hands to              *)
(* _run_applescript and what it makes of the text that comes back          *)
(***************************************************************************)
T_messages_of_mailboxRef ==
    <<"m", "e", "s", "s", "a", "g", "e", "s", " ", "o", "f", " ",
      "m", "a", "i", "l", "b", "o", "x", "R", "e", "f">>
T_whose == <<" ", "w", "h", "o", "s", "e", " ">>
T_and == <<" ", "a", "n", "d", " ">>
T_sender_contains ==
    <<"s", "e", "n", "d", "e", "r", " ", "c", "o", "n", "t", "a", "i", "n", "s", " ", DQ>>
T_subject_contains ==
    <<"s", "u", "b", "j", "e", "c", "t", " ", "c", "o", "n", "t", "a", "i", "n", "s", " ", DQ>>
T_read_status_is ==
    <<"r", "e", "a", "d", " ", "s", "t", "a", "t", "u", "s", " ", "i", "s", " ">>
T_true == <<"t", "r", "u", "e">>
T_false == <<"f", "a", "l", "s", "e">>
T_items_1_thru == <<"i", "t", "e", "m", "s", " ", "1", " ", "t", "h", "r", "u", " ">>

\* The message collection the script asks for: one clause per filter that is
\* given (an empty text and "None" stand for a filter that is not given),
\* joined by "and" after "whose"; no clause at all without filters.  The
\* limit is a parameter of the search and takes no part in the script.
search_script(sender_contains, subject_contains, read_status, limit) ==
    LET conditions ==
            (IF sender_contains = <<>> THEN <<>>
             ELSE <<T_sender_contains \o escape_applescript_string(sender_contains) \o <<DQ>>>>)
            \o (IF subject_contains = <<>> THEN <<>>
                ELSE <<T_subject_contains \o escape_applescript_string(subject_contains) \o <<DQ>>>>)
            \o (IF read_status = None THEN <<>>
                ELSE <<T_read_status_is \o (IF read_status = "True" THEN T_true ELSE T_false)>>)
    IN  IF conditions = <<>> THEN T_messages_of_mailboxRef
        ELSE T_messages_of_mailboxRef \o T_whose \o Join(conditions, T_and)

\* One record per line of five fields id|subject|sender|date|read; empty
\* text is no record.
parse_search_results(stdout) ==
    LET fields == [i \in 1..Len(SplitBy(stdout, LF)) |-> SplitBy(SplitBy(stdout, LF)[i], "|")]
        hits == SelectSeq(fields, LAMBDA parts : Len(parts) >= 5)
    IN  [i \in 1..Len(hits) |->
            [id |-> hits[i][1], subject |-> hits[i][2], sender |-> hits[i][3],
             date_received |-> hits[i][4], read_status |-> hits[i][5] = T_true]]

\* search_messages that asks the interpreter for the first limit items and
\* returns every record that comes back.
search_messages_slicing_script(sender_contains, subject_contains, read_status, limit, stdout) ==
    [script |-> T_items_1_thru \o IntText(limit) \o <<" ", "o", "f", " ">>
                    \o search_script(sender_contains, subject_contains, read_status, limit),
     result |-> parse_search_results(stdout)]

\* search_messages(account, mailbox, sender_contains, subject_contains,
\* read_status, limit) when _run_applescript returns stdout: the script of
\* the call and the records returned, the first limit of those parsed.
search_messages(sender_contains, subject_contains, read_status, limit, stdout) ==
    [script |-> search_script(sender_contains, subject_contains, read_status, limit),
     result |-> SliceTo(parse_search_results(stdout), limit)]

\* The searches of the model: filters given or not, a limit up to
\* MaxSearchLimit, and up to MaxSearchLines lines from the interpreter.
MaxSearchLimit == 4
MaxSearchLines == 3
SearchLines ==
    { <<"1", "|", "s", "|", "a", "|", "d", "|">> \o T_false,
      <<"2", "|", "t", "|", "b", "|", "e", "|">> \o T_true }
SearchCalls ==
    [sender_contains : {<<>>, <<"a">>, <<DQ>>},
     subject_contains : {<<>>, <<"b">>},
     read_status : {None, "True", "False"},
     limit : 0..MaxSearchLimit,
     lines : StringsUpTo(SearchLines, MaxSearchLines)]

InitSearch ==
    /\ fn = "none"
    /\ arg \in SearchCalls
    /\ ret = <<>>
    /\ OutsidePureIdle

CallSearchMessages ==
    /\ fn = "none"
    /\ fn' = "search_messages"
    /\ ret' = search_messages(arg.sender_contains, arg.subject_contains,
                              arg.read_status, arg.limit, Join(arg.lines, <<LF>>))
    /\ UNCHANGED <<arg, outsidePure>>

SpecSearch == InitSearch /\ [][CallSearchMessages]_vars

\* C22: with limit N and M lines from the interpreter, search_messages
\* returns min(N, M) records, the records of the first lines in their
\* order; and the script of the call has no slicing clause and is the same
\* for every limit.
C22_SearchCapAfterParsing ==
    fn = "search_messages" =>
        LET n == arg.limit
            m == Len(arg.lines)
        IN  /\ Len(ret.result) = IF n < m THEN n ELSE m
            /\ \A i \in 1..Len(ret.result) : ret.result[i].id = <<arg.lines[i][1]>>
            /\ ~Contains(ret.script, <<"t", "h", "r", "u">>)
            /\ \A k \in 0..MaxSearchLimit :
                   ret.script = search_script(arg.sender_contains, arg.subject_contains,
                                              arg.read_status, k)

\* A filtered search with limit 2 got three lines back and returned the
\* first two.
C22_Witness ==
    /\ fn = "search_messages"
    /\ arg.limit = 2
    /\ Len(arg.lines) = 3
    /\ arg.lines[1] # arg.lines[2]
    /\ arg.sender_contains # <<>>
    /\ Len(ret.result) = 2

(***************************************************************************)
(* AppleMailConnector.extract_attachment_text: save the attachment into a  *)
(* scoped temporary directory, extract the text of the saved file          *)
(***************************************************************************)
\* The extensions extract_text_from_file has an extractor for (plain text,
\* PDF, word processor), and the attachment names of the model.
SupportedExtensions ==
    { <<".", "t", "x", "t">>, <<".", "p", "d", "f">>, <<".", "d", "o", "c", "x">> }
AttachmentNames ==
    { <<"a", ".", "t", "x", "t">>, <<"b", ".", "p", "d", "f">>,
      <<"c", ".", "d", "o", "c", "x">>, <<"i", ".", "j", "p", "g">>, <<"n", "o", "n", "e">> }
IsSupported(name) == \E ext \in SupportedExtensions : EndsWith(name, ext)

\* How the save phase and the extraction of a supported file can end.
SaveOutcomes == {"saved", "none saved", "save failed"}
ExtractOutcomes == {"text", "empty text", "extraction failed"}

\* The scope of the temporary directory that is left only when the text
\* was extracted.
LeaveScopeOnSuccessOnly(dirs, d, result) ==
    IF result.kind = "returned" THEN dirs \ {d} ELSE dirs

\* Leaving the scope of the temporary directory d, with a return value or
\* with an exception: the directory is deleted.
LeaveScope(dirs, d, result) == dirs \ {d}

MaxExtractCalls == 3

\* The call makes its temporary directory and asks the bridge to save the
\* attachment into it.
ExtractAttachmentText(attachment_index, attachment_name) ==
    /\ xpc \in {"idle", "done"}
    /\ xcall.save_directory < MaxExtractCalls
    /\ xpc' = "saving"
    /\ xcall' = [attachment_index |-> attachment_index,
                 attachment_name |-> attachment_name,
                 save_directory |-> xcall.save_directory + 1]
    /\ tmp_dirs' = tmp_dirs \cup {xcall.save_directory + 1}
    /\ xresult' = Pending
    /\ UNCHANGED outsideExtract

\* save_attachments returns: with the file written the call goes on to the
\* extraction, with no file written or a failure of the bridge it raises.
SaveEnds(outcome) ==
    /\ xpc = "saving"
    /\ IF outcome = "saved"
       THEN /\ xpc' = "extracting"
            /\ UNCHANGED <<tmp_dirs, xresult>>
       ELSE LET result == [kind |-> "raised", detail |-> outcome]
            IN  /\ xpc' = "done"
                /\ xresult' = result
                /\ tmp_dirs' = LeaveScope(tmp_dirs, xcall.save_directory, result)
    /\ UNCHANGED <<xcall, outsideExtract>>

\* extract_text_from_file on the saved file: no extractor for the extension
\* is an "unsupported format" failure, an extractor returns the text or
\* fails; the call returns or raises and leaves the scope either way.
ExtractEnds(outcome) ==
    /\ xpc = "extracting"
    /\ LET result ==
               IF ~IsSupported(xcall.attachment_name)
               THEN [kind |-> "raised", detail |-> "unsupported format"]
               ELSE IF outcome = "extraction failed"
               THEN [kind |-> "raised", detail |-> outcome]
               ELSE [kind |-> "returned", detail |-> outcome]
       IN  /\ xresult' = result
           /\ tmp_dirs' = LeaveScope(tmp_dirs, xcall.save_directory, result)
    /\ xpc' = "done"
    /\ UNCHANGED <<xcall, outsideExtract>>

InitExtract == ExtractIdle /\ PureIdle /\ RateIdle /\ ThreadsIdle /\ ConfIdle /\ BridgeIdle /\ LogIdle

NextExtract ==
    \/ \E index \in {0, 1}, name \in AttachmentNames : ExtractAttachmentText(index, name)
    \/ \E outcome \in SaveOutcomes : SaveEnds(outcome)
    \/ \E outcome \in ExtractOutcomes : ExtractEnds(outcome)

SpecExtract == InitExtract /\ [][NextExtract]_vars

\* C23: the temporary directory of an extract_attachment_text call exists
\* while the call saves and extracts, and once the call has returned or
\* raised (text extracted, save failed, extraction failed, unsupported
\* format) no temporary directory is left, the call's own or an earlier one.
C23_TempDirGoneOnEveryExit ==
    /\ xpc \in {"saving", "extracting"} => tmp_dirs = {xcall.save_directory}
    /\ xpc \in {"idle", "done"} => tmp_dirs = {}
    /\ xpc = "done" => xresult # Pending

\* A second call made its directory, the file was saved, its format was
\* not supported, the call raised and no directory is left.
C23_Witness ==
    /\ xpc = "done"
    /\ xcall.save_directory = 2
    /\ xresult = [kind |-> "raised", detail |-> "unsupported format"]
    /\ tmp_dirs = {}

(***************************************************************************)
(* sanitize_error_message                                                  *)
(***************************************************************************)
T_PATH == <<"[", "P", "A", "T", "H", "]">>
T_ID == <<"[", "I", "D", "]">>
T_EMAIL == <<"[", "E", "M", "A", "I", "L", "]">>

MinIdLen == 10

\* \w, [A-Za-z0-9], and \b between s[k] and s[k + 1]
WordChars == Range(UpperCase) \cup Range(LowerCase) \cup Range(Digits) \cup {"_"}
AlnumChars == Range(UpperCase) \cup Range(LowerCase) \cup Range(Digits)
IsWordAt(s, k) == k >= 1 /\ k <= Len(s) /\ s[k] \in WordChars
WordBoundary(s, k) == IsWordAt(s, k) # IsWordAt(s, k + 1)
RunFrom(s, i, set) == IF i > Len(s) THEN 0 ELSE Run(s, i, set)

\* [~/]?[\w/-]+/[\w/.-]+ matched at i: the last position of the match, 0
\* for no match.  The first class run must hold a "/" after its first
\* character that has a character of the second class behind it; the match
\* then runs to the end of the characters of the second class.
UnixPathMatch(s, i) ==
    LET Core(j) ==
            LET k == j + RunFrom(s, j, WordChars \cup {"/", "-"}) - 1
            IN  \E m \in (j + 1)..k :
                    /\ s[m] = "/"
                    /\ m + 1 <= Len(s)
                    /\ s[m + 1] \in WordChars \cup {"/", ".", "-"}
        End(j) == j + RunFrom(s, j, WordChars \cup {"/", ".", "-"}) - 1
    IN  IF Core(i) THEN End(i)
        ELSE IF s[i] \in {"~", "/"} /\ Core(i + 1) THEN End(i + 1)
        ELSE 0

\* [A-Za-z]:\\[\w\\.-]+ matched at i
WindowsPathMatch(s, i) ==
    LET n == RunFrom(s, i + 3, WordChars \cup {BSL, ".", "-"})
    IN  IF /\ i + 3 <= Len(s)
           /\ IsUpper(s[i]) \/ IsLower(s[i])
           /\ s[i + 1] = ":"
           /\ s[i + 2] = BSL
           /\ n >= 1
        THEN i + 2 + n
        ELSE 0

\* \b(?=\w*\d)[A-Za-z0-9]{10,}\b matched at i: a whole word of ten or more
\* letters and digits, one digit at least, no underscore.
MessageIdMatch(s, i) ==
    LET n == RunFrom(s, i, AlnumChars)
    IN  IF /\ WordBoundary(s, i - 1)
           /\ n >= MinIdLen
           /\ WordBoundary(s, i + n - 1)
           /\ \E k \in i..(i + n - 1) : IsDigit(s[k])
        THEN i + n - 1
        ELSE 0

\* \b[A-Za-z0-9._%+-]+@[A-Za-z0-9.-]+\.[A-Z|a-z]{2,}\b matched at i: of the
\* ways to match, the one with the longest domain, and with it the longest
\* last part.
EmailMatch(s, i) ==
    LET at == i + RunFrom(s, i, AlnumChars \cup {".", "_", "%", "+", "-"})
        d == at + RunFrom(s, at + 1, AlnumChars \cup {".", "-"})
        TopRun(p) == RunFrom(s, p + 1, Range(UpperCase) \cup Range(LowerCase) \cup {"|"})
        Ends(p) == {t \in (p + 2)..(p + TopRun(p)) : WordBoundary(s, t)}
        dots == {p \in (at + 2)..d : s[p] = "." /\ Ends(p) # {}}
    IN  IF /\ WordBoundary(s, i - 1)
           /\ at > i /\ at <= Len(s) /\ s[at] = "@"
           /\ dots # {}
        THEN LET p == CHOOSE x \in dots : \A y \in dots : y <= x
             IN  CHOOSE t \in Ends(p) : \A u \in Ends(p) : u <= t
        ELSE 0

MatchEnd(pattern, s, i) ==
    CASE pattern = "unix path" -> UnixPathMatch(s, i)
      [] pattern = "windows path" -> WindowsPathMatch(s, i)
      [] pattern = "message id" -> MessageIdMatch(s, i)
      [] pattern = "email" -> EmailMatch(s, i)

\* re.sub(pattern, repl, s) from position i on: the leftmost match is
\* replaced and the search goes on behind it.
RECURSIVE ReSubFrom(_, _, _, _)
ReSubFrom(pattern, repl, s, i) ==
    IF i > Len(s) THEN <<>>
    ELSE LET e == MatchEnd(pattern, s, i)
         IN  IF e >= i THEN repl \o ReSubFrom(pattern, repl, s, e + 1)
             ELSE <<s[i]>> \o ReSubFrom(pattern, repl, s, i + 1)

sanitize_error_message(error) ==
    LET s1 == ReSubFrom("unix path", T_PATH, error, 1)
        s2 == ReSubFrom("windows path", T_PATH, s1, 1)
        s3 == ReSubFrom("message id", T_ID, s2, 1)
    IN  ReSubFrom("email", T_EMAIL, s3, 1)

\* The error texts of the model: up to MaxErrorFrags fragments in a row.
MaxErrorFrags == 3
ErrorInputs ==
    LET ErrorFrags ==
            { <<"/", "t", "m", "p">>, <<"~">>, <<".">>, <<"a", "@", "b">>,
              <<".", "c", "o">>, <<"1", "2", "3", "4", "5", "6", "7", "8", "9", "0">>,
              <<SP>>, <<"_">>, <<"x">>, <<"C", ":", BSL>> }
    IN  {Flatten(fs) : fs \in StringsUpTo(ErrorFrags, MaxErrorFrags)}

InitSanitize ==
    /\ fn = "none"
    /\ arg \in ErrorInputs
    /\ ret = <<>>
    /\ OutsidePureIdle

CallSanitizeErrorMessage ==
    /\ fn = "none"
    /\ fn' = "sanitize_error_message"
    /\ ret' = sanitize_error_message(arg)
    /\ UNCHANGED <<arg, outsidePure>>

SpecSanitize == InitSanitize /\ [][CallSanitizeErrorMessage]_vars

\* A file path in a text: a "/" with a name character behind it (an
\* absolute path, a path below "~", a relative path), or a drive letter,
\* ":\" and a name character.
HoldsPath(s) ==
    \E i \in 1..(Len(s) - 1) :
        \/ s[i] = "/" /\ s[i + 1] \in WordChars
        \/ /\ IsUpper(s[i]) \/ IsLower(s[i])
           /\ HasAt(s, i + 1, <<":", BSL>>)
           /\ IsWordAt(s, i + 3)
\* A word of MinIdLen or more letters and digits with a digit among them.
HoldsId(s) == \E i \in 1..Len(s) : MessageIdMatch(s, i) > 0
\* An address local@domain.tld.
HoldsEmail(s) == \E i \in 1..Len(s) : EmailMatch(s, i) > 0

\* C24: what sanitize_error_message returns holds no file path, no
\* identifier (ten or more letters and digits, a digit among them) and no
\* email address; and a text that holds none of the three comes back
\* unchanged.
C24_NoSensitiveTokenSurvives ==
    fn = "sanitize_error_message" =>
        /\ ~HoldsPath(ret)
        /\ ~HoldsId(ret)
        /\ ~HoldsEmail(ret)
        /\ (~HoldsPath(arg) /\ ~HoldsId(arg) /\ ~HoldsEmail(arg)) => ret = arg

\* C25: validate_attachment_type returns False exactly when executables are
\* not allowed and the file name, upper and lower case taken as the same,
\* ends with one of the dangerous extensions; it returns True otherwise.
C25_AttachmentTypeVerdict ==
    (fn = "validate_attachment_type") =>
        LET name == arg.a.filename
            EndsIn(ext) ==
                /\ Len(ext) <= Len(name)
                /\ \A j \in 1..Len(ext) :
                       LowerChar(name[Len(name) - Len(ext) + j]) = ext[j]
        IN  /\ ret \in BOOLEAN
            /\ ret = FALSE <=>
                   (~arg.a.allow_executables /\ \E ext \in dangerous_extensions : EndsIn(ext))

\* A name with an upper-case dangerous extension was refused, executables
\* not being allowed.
C25_Witness ==
    /\ fn = "validate_attachment_type"
    /\ arg.a.filename = <<"a", ".", "E", "x", "E">>
    /\ ~arg.a.allow_executables
    /\ ret = FALSE

\* What the claim says becomes of one character.
EscapedChar(c) ==
    IF c = NUL \/ (c \in Control /\ c \notin {TAB, LF, CR}) THEN <<>>
    ELSE IF c = BSL THEN <<BSL, BSL>>
    ELSE IF c = DQ THEN <<BSL, DQ>>
    ELSE IF c = CR THEN <<BSL, "r">>
    ELSE IF c = LF THEN <<BSL, "n">>
    ELSE IF c = TAB THEN <<BSL, "t">>
    ELSE <<c>>

\* C26: escape_applescript_string(s) is s with every character replaced on
\* its own (NUL and the control characters other than tab, line feed and
\* carriage return dropped, backslash doubled, quote, carriage return, line
\* feed and tab turned into their two-character escapes, the rest kept), no
\* backslash written by one step being escaped again by a later one; and
\* escaping a text cut in two anywhere gives the two escaped parts in a row.
C26_EscapeIsCharwise ==
    fn = "escape_applescript_string" =>
        /\ ret = Flatten([i \in 1..Len(arg) |-> EscapedChar(arg[i])])
        /\ \A k \in 0..Len(arg) :
               ret = escape_applescript_string(SubSeq(arg, 1, k))
                         \o escape_applescript_string(SubSeq(arg, k + 1, Len(arg)))

\* A backslash followed by the letter n, a quote and a line feed were
\* escaped: the result is \\n, \" and \n in a row.
C26_Witness ==
    /\ fn = "escape_applescript_string"
    /\ arg = <<BSL, "n", DQ, LF>>
    /\ ret = <<BSL, BSL, "n", BSL, DQ, BSL, "n">>

\* C27: a denied check records nothing: the history of its operation loses
\* old timestamps at most and gains none, the other histories stay as they
\* were, and at every later moment a check is denied after the denied
\* attempt exactly when it would have been denied without it.
C27_DeniedCheckRecordsNothing ==
    [][ \A o \in LimiterOps, w \in LimiterWindows, m \in LimiterBudgets :
            (Check(o, w, m) /\ ~lastCall'.result) =>
                LET before == operation_times[o]
                    after == operation_times'[o]
                IN  /\ Len(after) <= Len(before)
                    /\ after = SelectSeq(before, LAMBDA t : t \in Range(after))
                    /\ \A other \in Ops \ {o} :
                           operation_times'[other] = operation_times[other]
                    /\ \A later \in now..(MaxLimiterTime + w) :
                           (Len(SelectSeq(after, LAMBDA t : t > later - w)) >= m)
                               = (Len(SelectSeq(before, LAMBDA t : t > later - w)) >= m) ]_vars

\* A check was denied at a moment when an older admission had left the
\* window: the history lost a timestamp and holds no timestamp of the denied
\* attempt.
C27_Witness ==
    /\ lastCall # NoCall
    /\ ~lastCall.result
    /\ Len(operation_times[lastCall.op]) < Len(admitted[lastCall.op])
    /\ \A i \in 1..Len(operation_times[lastCall.op]) :
           \E j \in 1..Len(admitted[lastCall.op]) :
               operation_times[lastCall.op][i] = admitted[lastCall.op][j]

\* "(current date) - (<amount> * <unit>s)"
DateArithmetic(amount, unit) ==
    T_current_date_minus \o amount \o T_times \o unit \o <<"s", ")">>

\* 'last <unit>' or 'last <unit>s' in any case, blanks around the unit or not:
\* the units the text names (one at most).
LastUnits(date_str) ==
    {unit \in Units :
        /\ StartsWith(Lower(date_str), W_last)
        /\ Strip(SubSeq(Lower(date_str), 6, Len(date_str))) \in {unit, unit \o <<"s">>}}

\* C28: '<N> <unit>(s) ago' becomes '(current date) - (<N> * <unit>s)' and
\* 'last <unit>' becomes '(current date) - (1 * <unit>s)', the expression of
\* '1 <unit> ago', for the units day, week, month, year in any case, singular
\* or plural; every other text becomes 'date "<text>"'.
C28_DateFilterTranslation ==
    fn = "parse_date_filter" =>
        LET m == RelativeMatch(Lower(arg))
        IN  IF m.found
            THEN ret = DateArithmetic(IntText(ToInt(m.amount)), m.unit)
            ELSE IF LastUnits(arg) # {}
            THEN \A unit \in LastUnits(arg) :
                     /\ ret = DateArithmetic(<<"1">>, unit)
                     /\ ret = parse_date_filter(<<"1", " ">> \o unit \o <<" ">> \o W_ago)
            ELSE ret = T_date_quote \o arg \o <<DQ>>

\* C29: get_recent_operations(N) on a trail of L records returns min(N, L)
\* records: the N most recent ones in the order they were logged, or the
\* whole trail when it has fewer.
C29_RecentIsLastN ==
    [][ \A limit \in 0..MaxTrailLen :
            GetRecentOperations(limit) =>
                LET L == Len(operations)
                    n == IF limit < L THEN limit ELSE L
                IN  /\ Len(recent') = n
                    /\ \A i \in 1..Len(recent') :
                           recent'[i] = operations[L - Len(recent') + i] ]_vars

\* C30: validate_bulk_operation accepts a batch exactly when it holds at
\* least one item and at most max_items items; a negative item count is
\* never accepted.
C30_BulkAcceptsOneToMaximum ==
    fn = "validate_bulk_operation" =>
        (ret[1] = TRUE <=> (1 <= arg.a.item_count /\ arg.a.item_count <= arg.a.max_items))

====
